---------------------------- MODULE Spec2Model ----------------------------
(***************************************************************************)
(* Model of the resilience and calibration layer of the LLM council        *)
(* backend: CircuitBreaker, resilient_parallel_query, with_retry and       *)
(* QueryCache (backend/resilience.py) and CalibrationTracker               *)
(* (backend/calibration.py).                                               *)
(*                                                                         *)
(* Each component has its own specification (SpecCB, SpecRPQ, ...) over    *)
(* its own group of variables; the wall clock `now` (time.time()) is       *)
(* shared.  Python dicts are functions whose DOMAIN is the set of keys.    *)
(***************************************************************************)
EXTENDS Integers, Sequences, FiniteSets, TLC

\* ------------------------------------------------------------------------
\* Bounds of the model
\* ------------------------------------------------------------------------
MaxTime == 3          \* the clock runs over 0..MaxTime
MaxThreshold == 2     \* failure_threshold is drawn from 1..MaxThreshold
MaxRecovery == 2      \* recovery_timeout is drawn from 1..MaxRecovery
MaxFailures == 3      \* record_failure calls per model between two successes
MaxWorkers == 3       \* length of the models list of a fan-out
MaxRequired == 2      \* min_required is drawn from 0..MaxRequired
MaxRetries == 2       \* max_retries is drawn from -1..MaxRetries
MaxBaseDelay == 2     \* base_delay is drawn from 1..MaxBaseDelay
MaxTtl == 2           \* the cache's ttl is drawn from 1..MaxTtl
MaxIds == 3           \* rows ever inserted into the predictions table
MaxTimeout == 1       \* timeout_per_model is drawn from 1..MaxTimeout

None == -1            \* Python's None, SQL NULL in a number column

\* ------------------------------------------------------------------------
\* dict helpers
\* ------------------------------------------------------------------------
Put(d, k, v) == [x \in (DOMAIN d) \cup {k} |-> IF x = k THEN v ELSE d[x]]
Del(d, k) == [x \in (DOMAIN d) \ {k} |-> d[x]]
GetOr(d, k, default) == IF k \in DOMAIN d THEN d[k] ELSE default
EmptyDict == [x \in {} |-> 0]

VARIABLES
    now,                \* time.time()
    \* CircuitBreaker
    failure_threshold,  \* self.failure_threshold
    recovery_timeout,   \* self.recovery_timeout
    failures,           \* self.failures : dict model -> int
    open_until,         \* self.open_until : dict model -> time
    cb_call,            \* the last CircuitBreaker call and what it returned
    cb_hist,            \* per model, history of the calls made so far
    \* resilient_parallel_query
    rpq_pc,             \* "call" | "gather" | "done"
    rpq_in,             \* the arguments: models, min_required,
                        \*   timeout_per_model, allow_partial
    rpq_task,           \* one task per position of models (asyncio.gather)
    rpq_order,          \* positions in the order their tasks completed
    rpq_out,            \* what the call returned or raised
    \* with_retry
    retry_in,           \* the arguments: max_retries, base_delay, exponential
    retry_st,           \* pc, attempt and last_error of the running call
    retry_log,          \* outcome of every invocation and every sleep so far
    retry_out,          \* what the call returned or raised
    \* QueryCache
    ttl,                \* self.ttl
    cache,              \* self.cache : dict key -> (value, timestamp)
    cache_call,         \* the last QueryCache call and what it returned
    cache_sets,         \* per (query, model), the most recent set since the
                        \*   last clear(): its value and time
    \* CalibrationTracker
    db,                 \* the committed rows of table predictions
    next_id,            \* the next AUTOINCREMENT id
    txn,                \* the open transaction of a running record_outcome
    cal_call,           \* the last CalibrationTracker call and how it ended
    \* verify_all_claims
    vfy_pc,             \* "call" | "gather" | "done"
    vfy_in,             \* the arguments: claims (as passed), max_concurrent
    vfy_claims,         \* the ExtractedClaim objects of the list
    vfy_task,           \* one task per claim (asyncio.gather)
    vfy_sem,            \* the Semaphore's _value
    vfy_out,            \* what the call returned or raised
    \* a call of a function of evaluation.py or of extract_claims
    fn_call,            \* the last call: its arguments, the reply of the
                        \*   model (if it asks one) and what it returned
                        \*   or raised
    \* run_enhanced_council
    run_pc,             \* the await the call is suspended at, or "done"
    run_in,             \* the argument: user_query
    run_st,             \* the local variables assigned so far
    run_log,            \* the steps started so far, in order
    run_out             \* what the call returned or raised

cbVars == <<failure_threshold, recovery_timeout, failures, open_until,
            cb_call, cb_hist>>

rpqVars == <<rpq_pc, rpq_in, rpq_task, rpq_order, rpq_out>>

retryVars == <<retry_in, retry_st, retry_log, retry_out>>

cacheVars == <<ttl, cache, cache_call, cache_sets>>

calVars == <<db, next_id, txn, cal_call>>

\* the resilience and calibration components
resVars == <<cbVars, rpqVars, retryVars, cacheVars, calVars>>

vfyVars == <<vfy_pc, vfy_in, vfy_claims, vfy_task, vfy_sem, vfy_out>>

fnVars == <<fn_call>>

runVars == <<run_pc, run_in, run_st, run_log, run_out>>

\* the layer above: claims.py, evaluation.py, council_enhanced.py
appVars == <<vfyVars, fnVars, runVars>>

vars == <<now, cbVars, rpqVars, retryVars, cacheVars, calVars, appVars>>

\* The clock advances (time passes between two calls).
Tick ==
    /\ now < MaxTime
    /\ now' = now + 1

\* ========================================================================
\* CircuitBreaker                                   (resilience.py 153-190)
\* ========================================================================
Models == {"a", "b"}

\* History kept per model, for the statements about call sequences:
\*   consec    record_failure calls since the last record_success
\*   streak    record_failure calls since the last record_success or the
\*             last is_open call that ended a cooldown
\*   last_fail time of the last record_failure call
\*   opened    time the circuit went from closed (is_open false) to open
\*             (None when closed)
\*   tripped   time of the last record_failure call that set open_until
\*             (None when closed)
NoHist == [consec |-> 0, streak |-> 0, last_fail |-> None,
           opened |-> None, tripped |-> None]

NoCall == [op |-> "none", model |-> "a", ret |-> FALSE, at |-> 0,
           before |-> NoHist, counter |-> None]

InitCB ==
    /\ failure_threshold \in 1..MaxThreshold
    /\ recovery_timeout \in 1..MaxRecovery
    /\ failures = EmptyDict
    /\ open_until = EmptyDict
    /\ cb_call = NoCall
    /\ cb_hist = [m \in Models |-> NoHist]

\* `time.time() >= self.open_until[model]`
RecoveredStrict(model) == now > open_until[model]
Recovered(model) == now >= open_until[model]

\* what is_open(model) returns in the current state
IsOpenResultSticky(model) == model \in DOMAIN open_until
IsOpenResult(model) ==
    IF model \in DOMAIN open_until
    THEN IF Recovered(model) THEN FALSE ELSE TRUE
    ELSE FALSE

is_open(model) ==
    /\ IF model \in DOMAIN open_until /\ Recovered(model)
       THEN /\ open_until' = Del(open_until, model)
            /\ failures' = Put(failures, model, 0)
            /\ cb_hist' = [cb_hist EXCEPT ![model].streak = 0,
                                          ![model].opened = None,
                                          ![model].tripped = None]
       ELSE UNCHANGED <<open_until, failures, cb_hist>>
    /\ cb_call' = [op |-> "is_open", model |-> model,
                   ret |-> IsOpenResult(model), at |-> now,
                   before |-> cb_hist[model],
                   counter |-> GetOr(failures', model, None)]
    /\ UNCHANGED <<now, failure_threshold, recovery_timeout, rpqVars, retryVars, cacheVars, calVars, appVars>>

\* record_success writes the counter only; open_until is left as it is
record_success_closing(model) ==
    /\ failures' = Put(failures, model, 0)
    /\ open_until' = Del(open_until, model)
    /\ cb_hist' = [cb_hist EXCEPT ![model].consec = 0, ![model].streak = 0]
    /\ cb_call' = [op |-> "record_success", model |-> model, ret |-> FALSE,
                   at |-> now, before |-> cb_hist[model], counter |-> 0]
    /\ UNCHANGED <<now, failure_threshold, recovery_timeout, rpqVars, retryVars, cacheVars, calVars, appVars>>
record_success(model) ==
    /\ failures' = Put(failures, model, 0)
    /\ cb_hist' = [cb_hist EXCEPT ![model].consec = 0, ![model].streak = 0]
    /\ cb_call' = [op |-> "record_success", model |-> model, ret |-> FALSE,
                   at |-> now, before |-> cb_hist[model], counter |-> 0]
    /\ UNCHANGED <<now, failure_threshold, recovery_timeout, open_until, rpqVars, retryVars, cacheVars, calVars, appVars>>

\* `self.failures[model] >= self.failure_threshold`
Trips(count) == count >= failure_threshold

record_failure(model) ==
    LET count == GetOr(failures, model, 0) + 1 IN
    /\ cb_hist[model].consec < MaxFailures
    /\ failures' = Put(failures, model, count)
    /\ open_until' = IF Trips(count)
                     THEN Put(open_until, model, now + recovery_timeout)
                     ELSE open_until
    /\ cb_hist' = [cb_hist EXCEPT
            ![model].consec = @ + 1,
            ![model].streak = @ + 1,
            ![model].last_fail = now,
            ![model].opened = IF Trips(count) /\ ~IsOpenResult(model)
                              THEN now ELSE @,
            ![model].tripped = IF Trips(count) THEN now ELSE @]
    /\ cb_call' = [op |-> "record_failure", model |-> model, ret |-> FALSE,
                   at |-> now, before |-> cb_hist[model], counter |-> count]
    /\ UNCHANGED <<now, failure_threshold, recovery_timeout, rpqVars, retryVars, cacheVars, calVars, appVars>>

TickCB == Tick /\ UNCHANGED <<cbVars, rpqVars, retryVars, cacheVars, calVars, appVars>>

NextCB ==
    \/ TickCB
    \/ \E m \in Models : is_open(m)
    \/ \E m \in Models : record_success(m)
    \/ \E m \in Models : record_failure(m)

\* resilient_parallel_query before it is called
IdleRPQ ==
    /\ rpq_pc = "idle"
    /\ rpq_in = [models |-> << >>, min_required |-> 0,
                 timeout_per_model |-> 1, allow_partial |-> TRUE]
    /\ rpq_task = << >>
    /\ rpq_order = << >>
    /\ rpq_out = [kind |-> "none"]

\* with_retry before it is called
IdleRetry ==
    /\ retry_in = [max_retries |-> 0, base_delay |-> 1, exponential |-> TRUE]
    /\ retry_st = [pc |-> "idle", attempt |-> 0, last_error |-> "None"]
    /\ retry_log = [results |-> << >>, sleeps |-> << >>]
    /\ retry_out = [kind |-> "none"]

\* QueryCache as constructed
NoCacheCall == [op |-> "none", query |-> "", model |-> "", value |-> "",
                at |-> 0, before |-> [value |-> "", at |-> None],
                swept |-> {}]

IdleCache ==
    /\ ttl = 1
    /\ cache = EmptyDict
    /\ cache_call = NoCacheCall
    /\ cache_sets = EmptyDict

\* CalibrationTracker after _init_db on a new database file
NoTxn == [pc |-> "idle", query |-> "", ground_truth |-> << >>,
          rows |-> << >>, k |-> 0, work |-> {}, before |-> {}]
NoCalCall == [op |-> "none"]

InitCal ==
    /\ db = {}
    /\ next_id = 1
    /\ txn = NoTxn
    /\ cal_call = NoCalCall

\* verify_all_claims before it is called
IdleVfy ==
    /\ vfy_pc = "idle"
    /\ vfy_in = [claims |-> << >>, max_concurrent |-> 0]
    /\ vfy_claims = << >>
    /\ vfy_task = << >>
    /\ vfy_sem = 0
    /\ vfy_out = [kind |-> "none"]

\* no call of pairwise_compare, structured_ranking or extract_claims yet
IdleFn == fn_call = [op |-> "none"]

\* run_enhanced_council before it is called
NoLocals == << >>
IdleRun ==
    /\ run_pc = "idle"
    /\ run_in = [user_query |-> ""]
    /\ run_st = NoLocals
    /\ run_log = << >>
    /\ run_out = [kind |-> "none"]

\* the layer above the resilience and calibration components, not running
IdleApp == IdleVfy /\ IdleFn /\ IdleRun

InitAllCB == now = 0 /\ InitCB /\ IdleRPQ /\ IdleRetry /\ IdleCache /\ InitCal /\ IdleApp

SpecCB == InitAllCB /\ [][NextCB]_vars

\* ------------------------------------------------------------------------
\* C1 (as stated): after failure_threshold record_failure(M) calls with no
\* record_success(M) in between, is_open(M) returns true (while the
\* cooldown of the last of them runs); the first is_open(M) call made at
\* least recovery_timeout after the circuit opened returns false and leaves
\* M's failure counter at 0.  ("The circuit opened" is read as the code logs
\* it: the last record_failure(M) that set open_until.)
\* ------------------------------------------------------------------------
C1_AsStated ==
    cb_call.op = "is_open" =>
        /\ (/\ cb_call.before.consec = failure_threshold
            /\ cb_call.at < cb_call.before.last_fail + recovery_timeout)
           => cb_call.ret = TRUE
        /\ (/\ cb_call.before.tripped # None
            /\ cb_call.at >= cb_call.before.tripped + recovery_timeout)
           => (cb_call.ret = FALSE /\ cb_call.counter = 0)

\* C1 (amended): after failure_threshold record_failure(M) calls with
\* neither a record_success(M) nor a cooldown-ending is_open(M) in between,
\* is_open(M) returns true when called less than recovery_timeout after the
\* last of them; the first is_open(M) call made at least recovery_timeout
\* after the circuit (last) opened returns false and leaves M's counter
\* at 0.
C1_OpenThenRecover ==
    cb_call.op = "is_open" =>
        /\ (/\ cb_call.before.streak >= failure_threshold
            /\ cb_call.at < cb_call.before.last_fail + recovery_timeout)
           => cb_call.ret = TRUE
        /\ (/\ cb_call.before.tripped # None
            /\ cb_call.at >= cb_call.before.tripped + recovery_timeout)
           => (cb_call.ret = FALSE /\ cb_call.counter = 0)

\* an is_open call ended a cooldown that a later failure had extended
C1_Witness ==
    /\ cb_call.op = "is_open"
    /\ cb_call.ret = FALSE
    /\ cb_call.before.streak >= failure_threshold
    /\ cb_call.before.tripped > cb_call.before.opened
    /\ cb_call.at >= cb_call.before.tripped + recovery_timeout
    /\ cb_call.counter = 0

\* ========================================================================
\* resilient_parallel_query                          (resilience.py 70-115)
\* ========================================================================
WorkerName == <<"w1", "w2", "w3", "w4", "w5">>
WorkerIds == {WorkerName[i] : i \in 1..MaxWorkers}

\* the models lists: n distinct worker ids, ascending or descending
ModelLists ==
    UNION {{[i \in 1..n |-> WorkerName[i]], [i \in 1..n |-> WorkerName[n + 1 - i]]}
           : n \in 0..MaxWorkers}

\* what query_func(model) returns when it succeeds
Response(model) == [model |-> model, content |-> "answer"]

\* the two kinds of exception query_func(model) can raise
WorkerExceptions == {"TimeoutError", "ValueError"}

\* str(ModelQueryError(model, message)) -- ModelQueryError.__init__
ErrStr(model, message) == model \o ": " \o message

\* a result slot of gather: a returned value or a ModelQueryError
NoResult == [kind |-> "none", value |-> "", model |-> "", message |-> "",
             recoverable |-> FALSE]
Value(v) == [NoResult EXCEPT !.kind = "value", !.value = v]
ModelQueryError(model, message, recoverable) ==
    [NoResult EXCEPT !.kind = "exception", !.model = model,
                     !.message = message, !.recoverable = recoverable]

InitRPQ ==
    /\ rpq_pc = "call"
    /\ rpq_in \in [models : ModelLists,
                   min_required : 0..MaxRequired,
                   timeout_per_model : 1..MaxTimeout,
                   allow_partial : BOOLEAN]
    /\ rpq_task = << >>
    /\ rpq_order = << >>
    /\ rpq_out = [kind |-> "none"]

\* tasks = [query_with_timeout(m) for m in models]; asyncio.gather(*tasks):
\* one task per position, all created before the caller suspends
rpq_call ==
    /\ rpq_pc = "call"
    /\ rpq_task' = [i \in 1..Len(rpq_in.models) |->
                        [st |-> "created", created |-> now,
                         started |-> None, finished |-> None,
                         how |-> "none", res |-> NoResult]]
    /\ rpq_pc' = "gather"
    /\ UNCHANGED <<now, rpq_in, rpq_order, rpq_out, cbVars, retryVars, cacheVars, calVars, appVars>>

\* The event loop runs the created tasks in the order gather created them,
\* each as soon as the ones before it have been started (none waits for
\* another to finish).
StartableInTurn(i) ==
    /\ rpq_task[i].st = "created"
    /\ \A j \in 1..(i - 1) : rpq_task[j].st = "done"
Startable(i) ==
    /\ rpq_task[i].st = "created"
    /\ \A j \in 1..(i - 1) : rpq_task[j].st # "created"

\* the task enters query_with_timeout: wait_for arms its timer
rpq_start(i) ==
    /\ rpq_pc = "gather"
    /\ Startable(i)
    /\ rpq_task' = [rpq_task EXCEPT ![i].st = "running", ![i].started = now]
    /\ UNCHANGED <<now, rpq_pc, rpq_in, rpq_order, rpq_out, cbVars, retryVars, cacheVars, calVars, appVars>>

Finish(i, how, res) ==
    /\ rpq_task' = [rpq_task EXCEPT ![i].st = "done", ![i].finished = now,
                                    ![i].how = how, ![i].res = res]
    /\ rpq_order' = Append(rpq_order, i)
    /\ UNCHANGED <<now, rpq_pc, rpq_in, rpq_out, cbVars, retryVars, cacheVars, calVars, appVars>>

Running(i) == rpq_pc = "gather" /\ rpq_task[i].st = "running"
Elapsed(i) == now - rpq_task[i].started

\* query_func(model) returns within the timeout
rpq_worker_returns(i) ==
    /\ Running(i)
    /\ Elapsed(i) <= rpq_in.timeout_per_model
    /\ Finish(i, "returned", Value(Response(rpq_in.models[i])))

\* query_func(model) raises: `except asyncio.TimeoutError` catches a
\* TimeoutError of the worker itself, `except Exception` every other one
rpq_worker_raises(i, exc) ==
    /\ Running(i)
    /\ Elapsed(i) <= rpq_in.timeout_per_model
    /\ Finish(i, "raised",
              IF exc = "TimeoutError"
              THEN ModelQueryError(rpq_in.models[i], "Timeout", TRUE)
              ELSE ModelQueryError(rpq_in.models[i], exc, FALSE))

\* wait_for's timer fires: the worker is cancelled
rpq_worker_times_out(i) ==
    /\ Running(i)
    /\ Elapsed(i) >= rpq_in.timeout_per_model
    /\ Finish(i, "timed_out",
              ModelQueryError(rpq_in.models[i], "Timeout", TRUE))

\* results = await asyncio.gather(..., return_exceptions=True):
\* the results in the order of the tasks
GatherInCompletionOrder == [i \in 1..Len(rpq_task) |-> rpq_task[rpq_order[i]].res]
GatherResults == [i \in 1..Len(rpq_task) |-> rpq_task[i].res]

\* isinstance(result, Exception)
IsExceptionRecoverable(result) == result.kind = "exception" /\ result.recoverable
IsException(result) == result.kind = "exception"

\* the loop `for model, result in zip(models, results)`, after k rounds
RECURSIVE Collect(_, _, _)
Collect(models, results, k) ==
    IF k = 0
    THEN [successful |-> << >>, failed |-> << >>, errors |-> << >>]
    ELSE LET acc == Collect(models, results, k - 1)
             result == results[k]
         IN  IF IsException(result)
             THEN [acc EXCEPT
                     !.failed = Append(@, models[k]),
                     !.errors = Append(@, ErrStr(result.model, result.message))]
             ELSE [acc EXCEPT !.successful = Append(@, result.value)]

\* len(successful) < min_required
InsufficientOrEqual(successful, min_required) == Len(successful) <= min_required
Insufficient(successful, min_required) == Len(successful) < min_required

\* gather has every result: the loop runs and the call returns or raises
rpq_finish ==
    /\ rpq_pc = "gather"
    /\ \A i \in 1..Len(rpq_task) : rpq_task[i].st = "done"
    /\ LET c == Collect(rpq_in.models, GatherResults, Len(rpq_in.models))
       IN  rpq_out' =
             IF Insufficient(c.successful, rpq_in.min_required)
                /\ ~rpq_in.allow_partial
             THEN [kind |-> "raise", error |-> "InsufficientResponsesError",
                   required |-> rpq_in.min_required,
                   received |-> Len(c.successful),
                   errors |-> c.errors, at |-> now]
             ELSE [kind |-> "return", successful |-> c.successful,
                   failed |-> c.failed, at |-> now]
    /\ rpq_pc' = "done"
    /\ UNCHANGED <<now, rpq_in, rpq_task, rpq_order, cbVars, retryVars, cacheVars, calVars, appVars>>

\* Time passes only when the event loop has nothing ready to run: no task
\* waits to be started, no timer has expired, no finished gather.
TickRPQ ==
    /\ rpq_pc = "gather"
    /\ \E i \in 1..Len(rpq_task) : rpq_task[i].st # "done"
    /\ \A i \in 1..Len(rpq_task) :
          /\ ~Startable(i)
          /\ rpq_task[i].st = "running" => Elapsed(i) < rpq_in.timeout_per_model
    /\ Tick
    /\ UNCHANGED <<rpqVars, cbVars, retryVars, cacheVars, calVars, appVars>>

NextRPQ ==
    \/ rpq_call
    \/ \E i \in 1..Len(rpq_task) : rpq_start(i)
    \/ \E i \in 1..Len(rpq_task) : rpq_worker_returns(i)
    \/ \E i \in 1..Len(rpq_task), e \in WorkerExceptions : rpq_worker_raises(i, e)
    \/ \E i \in 1..Len(rpq_task) : rpq_worker_times_out(i)
    \/ rpq_finish
    \/ TickRPQ

\* the CircuitBreaker as constructed, not used by this specification
IdleCB ==
    /\ failure_threshold = 1
    /\ recovery_timeout = 1
    /\ failures = EmptyDict
    /\ open_until = EmptyDict
    /\ cb_call = NoCall
    /\ cb_hist = [m \in Models |-> NoHist]

InitAllRPQ == now = 0 /\ IdleCB /\ InitRPQ /\ IdleRetry /\ IdleCache /\ InitCal /\ IdleApp

SpecRPQ == InitAllRPQ /\ [][NextRPQ]_vars

\* ========================================================================
\* with_retry                                         (resilience.py 48-67)
\* ========================================================================
\* what coro_factory() can raise: subclasses of Exception, which the
\* `except Exception` clause catches, and a BaseException, which it does not
Errors == {"ErrorA", "ErrorB"}
BaseErrors == {"CancelledError"}
RetryValues == {"v1", "v2"}

RECURSIVE Pow2(_)
Pow2(n) == IF n = 0 THEN 1 ELSE 2 * Pow2(n - 1)

InitRetry ==
    /\ retry_in \in [max_retries : (-1)..MaxRetries,
                     base_delay : 1..MaxBaseDelay,
                     exponential : BOOLEAN]
    /\ retry_st = [pc |-> "call", attempt |-> 0, last_error |-> "None"]
    /\ retry_log = [results |-> << >>, sleeps |-> << >>]
    /\ retry_out = [kind |-> "none"]

\* range(max_retries + 1) still has an element `attempt`
InRange(attempt) == attempt < retry_in.max_retries + 1

\* `raise last_error`: raising None is a TypeError
RaiseLast(last_error) ==
    [kind |-> "raise",
     error |-> IF last_error = "None" THEN "TypeError" ELSE last_error]

\* with_retry is called: the loop is entered and coro_factory() invoked, or
\* the range is empty and the function falls through to `raise last_error`
retry_call ==
    /\ retry_st.pc = "call"
    /\ IF InRange(0)
       THEN /\ retry_st' = [retry_st EXCEPT !.pc = "awaiting"]
            /\ UNCHANGED retry_out
       ELSE /\ retry_st' = [retry_st EXCEPT !.pc = "done"]
            /\ retry_out' = RaiseLast(retry_st.last_error)
    /\ UNCHANGED <<now, retry_in, retry_log, cbVars, rpqVars, cacheVars, calVars, appVars>>

\* `return await coro_factory()`
retry_op_returns(v) ==
    /\ retry_st.pc = "awaiting"
    /\ retry_log' = [retry_log EXCEPT
                        !.results = Append(@, [ok |-> TRUE, value |-> v])]
    /\ retry_out' = [kind |-> "return", value |-> v]
    /\ retry_st' = [retry_st EXCEPT !.pc = "done"]
    /\ UNCHANGED <<now, retry_in, cbVars, rpqVars, cacheVars, calVars, appVars>>

\* `last_error = e`
KeepFirstError(last_error, e) == IF last_error = "None" THEN e ELSE last_error
NextLastError(last_error, e) == e

\* `delay = base_delay * (2 ** attempt if exponential else 1)`
ConstantDelay(attempt) == retry_in.base_delay
Delay(attempt) ==
    retry_in.base_delay * (IF retry_in.exponential THEN Pow2(attempt) ELSE 1)

\* coro_factory() raises an Exception: sleep and go round again, or leave
\* the loop after the last attempt and `raise last_error`
retry_op_raises(e) ==
    /\ retry_st.pc = "awaiting"
    /\ retry_log' = [retry_log EXCEPT
                        !.results = Append(@, [ok |-> FALSE, value |-> e]),
                        !.sleeps = IF retry_st.attempt < retry_in.max_retries
                                   THEN Append(@, [after |-> retry_st.attempt,
                                                   delay |-> Delay(retry_st.attempt)])
                                   ELSE @]
    /\ LET err == NextLastError(retry_st.last_error, e) IN
       IF retry_st.attempt < retry_in.max_retries
       THEN /\ retry_st' = [retry_st EXCEPT !.pc = "sleeping", !.last_error = err]
            /\ UNCHANGED retry_out
       ELSE IF InRange(retry_st.attempt + 1)
       THEN /\ retry_st' = [retry_st EXCEPT !.pc = "awaiting", !.last_error = err,
                                            !.attempt = @ + 1]
            /\ UNCHANGED retry_out
       ELSE /\ retry_st' = [retry_st EXCEPT !.pc = "done", !.last_error = err,
                                            !.attempt = @ + 1]
            /\ retry_out' = RaiseLast(err)
    /\ UNCHANGED <<now, retry_in, cbVars, rpqVars, cacheVars, calVars, appVars>>

\* coro_factory() raises a BaseException that is no Exception: it leaves
\* with_retry at once
retry_op_aborts(e) ==
    /\ retry_st.pc = "awaiting"
    /\ retry_log' = [retry_log EXCEPT
                        !.results = Append(@, [ok |-> FALSE, value |-> e])]
    /\ retry_out' = [kind |-> "raise", error |-> e]
    /\ retry_st' = [retry_st EXCEPT !.pc = "done"]
    /\ UNCHANGED <<now, retry_in, cbVars, rpqVars, cacheVars, calVars, appVars>>

\* asyncio.sleep(delay) is over: the next round of the loop
retry_wakes ==
    /\ retry_st.pc = "sleeping"
    /\ IF InRange(retry_st.attempt + 1)
       THEN /\ retry_st' = [retry_st EXCEPT !.pc = "awaiting", !.attempt = @ + 1]
            /\ UNCHANGED retry_out
       ELSE /\ retry_st' = [retry_st EXCEPT !.pc = "done", !.attempt = @ + 1]
            /\ retry_out' = RaiseLast(retry_st.last_error)
    /\ UNCHANGED <<now, retry_in, retry_log, cbVars, rpqVars, cacheVars, calVars, appVars>>

NextRetry ==
    \/ retry_call
    \/ \E v \in RetryValues : retry_op_returns(v)
    \/ \E e \in Errors : retry_op_raises(e)
    \/ \E e \in BaseErrors : retry_op_aborts(e)
    \/ retry_wakes

InitAllRetry == now = 0 /\ IdleCB /\ IdleRPQ /\ InitRetry /\ IdleCache /\ InitCal /\ IdleApp

SpecRetry == InitAllRetry /\ [][NextRetry]_vars

\* C6: for max_retries >= 0 the operation is invoked at most max_retries + 1
\* times; with_retry stops at the first invocation that succeeds and returns
\* its result; when all max_retries + 1 invocations fail it re-raises the
\* error of the last one.
C6_RetryBound ==
    LET results == retry_log.results
        n == Len(results)
    IN  retry_in.max_retries >= 0 =>
          /\ n <= retry_in.max_retries + 1
          /\ \A k \in 1..(n - 1) : ~results[k].ok
          /\ retry_st.pc = "done" =>
                /\ n >= 1
                /\ results[n].ok =>
                      retry_out = [kind |-> "return", value |-> results[n].value]
                /\ (n = retry_in.max_retries + 1 /\ ~results[n].ok) =>
                      retry_out = [kind |-> "raise", error |-> results[n].value]

\* every one of the max_retries + 1 >= 2 invocations failed, the last with
\* another error than the first
C6_Witness ==
    /\ retry_st.pc = "done"
    /\ retry_in.max_retries >= 1
    /\ Len(retry_log.results) = retry_in.max_retries + 1
    /\ \A k \in 1..Len(retry_log.results) : ~retry_log.results[k].ok
    /\ retry_log.results[1].value # retry_log.results[Len(retry_log.results)].value
    /\ retry_out.kind = "raise"

\* ========================================================================
\* QueryCache                                       (resilience.py 118-150)
\* ========================================================================
\* model identifiers (config.py: "google/gemma-3-27b-it:free") and query
\* texts; both are arbitrary strings and may hold a colon
\* as <<query, model>>
CachePairs == {<<"hi", "gemma">>, <<"hi", "gemma:free">>, <<"free:hi", "gemma">>}
CacheValues == {"x", "y"}
NoValue == "None"

\* hashlib.sha256(text.encode()).hexdigest()[:n]: a digest of the text, taken
\* to be free of collisions
Sha256Hex(text, n) == <<"sha256", n, text>>

\* f"{model}:{query}"
KeyText(query, model) == model \o ":" \o query

_cache_key(query, model) == Sha256Hex(KeyText(query, model), 32)

InitCache ==
    /\ ttl \in 1..MaxTtl
    /\ cache = EmptyDict
    /\ cache_call = NoCacheCall
    /\ cache_sets = EmptyDict

LastSet(query, model) ==
    GetOr(cache_sets, <<query, model>>, [value |-> "", at |-> None])

\* `time.time() - timestamp < self.ttl`
FreshInclusive(timestamp) == now - timestamp <= ttl
Fresh(timestamp) == now - timestamp < ttl

\* what get(query, model) returns in the current state
GetResult(query, model) ==
    LET key == _cache_key(query, model) IN
    IF key \in DOMAIN cache
    THEN IF Fresh(cache[key].timestamp) THEN cache[key].value ELSE NoValue
    ELSE NoValue

\* get reads the entry and deletes it when it is stale; a hit writes nothing
get_touching(query, model) ==
    LET key == _cache_key(query, model)
        hit == key \in DOMAIN cache /\ Fresh(cache[key].timestamp)
    IN  /\ cache' = IF key \in DOMAIN cache
                     THEN IF hit
                          THEN Put(cache, key, [value |-> cache[key].value,
                                                timestamp |-> now])
                          ELSE Del(cache, key)
                     ELSE cache
        /\ cache_call' = [op |-> "get", query |-> query, model |-> model,
                          value |-> IF hit THEN cache[key].value ELSE NoValue,
                          at |-> now, before |-> LastSet(query, model),
                          swept |-> {}]
        /\ UNCHANGED <<now, ttl, cache_sets, cbVars, rpqVars, retryVars, calVars, appVars>>
get(query, model) ==
    LET key == _cache_key(query, model)
        hit == key \in DOMAIN cache /\ Fresh(cache[key].timestamp)
    IN  /\ cache' = IF key \in DOMAIN cache /\ ~hit THEN Del(cache, key) ELSE cache
        /\ cache_call' = [op |-> "get", query |-> query, model |-> model,
                          value |-> IF hit THEN cache[key].value ELSE NoValue,
                          at |-> now, before |-> LastSet(query, model),
                          swept |-> {}]
        /\ UNCHANGED <<now, ttl, cache_sets, cbVars, rpqVars, retryVars, calVars, appVars>>

set(query, model, value) ==
    LET key == _cache_key(query, model) IN
    /\ cache' = Put(cache, key, [value |-> value, timestamp |-> now])
    /\ cache_call' = [op |-> "set", query |-> query, model |-> model,
                      value |-> value, at |-> now,
                      before |-> LastSet(query, model), swept |-> {}]
    /\ cache_sets' = Put(cache_sets, <<query, model>>, [value |-> value, at |-> now])
    /\ UNCHANGED <<now, ttl, cbVars, rpqVars, retryVars, calVars, appVars>>

clear ==
    /\ cache' = EmptyDict
    /\ cache_call' = [NoCacheCall EXCEPT !.op = "clear", !.at = now]
    /\ cache_sets' = EmptyDict
    /\ UNCHANGED <<now, ttl, cbVars, rpqVars, retryVars, calVars, appVars>>

\* `now - ts >= self.ttl`
ExpiredStrict(timestamp) == now - timestamp > ttl
Expired(timestamp) == now - timestamp >= ttl

clear_expired ==
    /\ cache' = [k \in {k \in DOMAIN cache : ~Expired(cache[k].timestamp)}
                    |-> cache[k]]
    /\ cache_call' = [NoCacheCall EXCEPT !.op = "clear_expired", !.at = now,
                          !.swept = DOMAIN cache \ DOMAIN cache']
    /\ UNCHANGED <<now, ttl, cache_sets, cbVars, rpqVars, retryVars, calVars, appVars>>

TickCache == Tick /\ UNCHANGED <<cbVars, rpqVars, retryVars, cacheVars, calVars, appVars>>

NextCache ==
    \/ \E p \in CachePairs : get(p[1], p[2])
    \/ \E p \in CachePairs, v \in CacheValues : set(p[1], p[2], v)
    \/ clear
    \/ clear_expired
    \/ TickCache

InitAllCache == now = 0 /\ IdleCB /\ IdleRPQ /\ IdleRetry /\ InitCache /\ InitCal /\ IdleApp

SpecCache == InitAllCache /\ [][NextCache]_vars

\* C7: get(query, model) returns None when no set was made for that
\* (query, model) (since the cache was last cleared) and when at least ttl
\* has passed since the most recent set for it, swept or not; within ttl of
\* that set it returns the value that was set.
C7_GetAbsentOrValue ==
    cache_call.op = "get" =>
        IF cache_call.before.at = None
        THEN cache_call.value = NoValue
        ELSE IF cache_call.at - cache_call.before.at >= ttl
        THEN cache_call.value = NoValue
        ELSE cache_call.value = cache_call.before.value

\* ========================================================================
\* CalibrationTracker                                 (calibration.py 16-173)
\* ========================================================================
\* Prediction and ground-truth texts are sequences of characters.
CalModels == {"m1", "m2"}
CalQueries == {"q1", "q2"}
\* the (stated_confidence, prediction) of a call, confidence in tenths
CalPredictions == {<<5, <<"R", "o", "m", "e">>>>, <<9, <<"n", "o">>>>}
TruthTexts == {<<"r", "o", "m", "e">>, <<"o", "s", "l", "o">>}
NullText == <<"NULL">>          \* SQL NULL in a TEXT column

\* str.lower() of a character
UpperCase == "ABCDEFGHIJKLMNOPQRSTUVWXYZ"
LowerCase == "abcdefghijklmnopqrstuvwxyz"
LowerChar(c) ==
    IF \E i \in 1..26 : SubSeq(UpperCase, i, i) = c
    THEN LET i == CHOOSE i \in 1..26 : SubSeq(UpperCase, i, i) = c
         IN  SubSeq(LowerCase, i, i)
    ELSE c
Lower(text) == [i \in 1..Len(text) |-> LowerChar(text[i])]

\* str.strip(): without leading and trailing whitespace
IsSpace(c) == c \in {" ", "\t", "\n"}
RECURSIVE LStrip(_)
LStrip(text) ==
    IF text # << >> /\ IsSpace(Head(text)) THEN LStrip(Tail(text)) ELSE text
RECURSIVE RStrip(_)
RStrip(text) ==
    IF text # << >> /\ IsSpace(text[Len(text)])
    THEN RStrip(SubSeq(text, 1, Len(text) - 1))
    ELSE text
Strip(text) == RStrip(LStrip(text))

\* `needle in text`
Contains(text, needle) ==
    \E i \in 0..(Len(text) - Len(needle)) :
        SubSeq(text, i + 1, i + Len(needle)) = needle

\* `text.split()[0] if text else ""`, for a stripped text
RECURSIVE TokenEnd(_, _)
TokenEnd(text, i) ==
    IF i < Len(text) /\ ~IsSpace(text[i + 1]) THEN TokenEnd(text, i + 1) ELSE i
FirstToken(text) ==
    IF text = << >> THEN << >> ELSE SubSeq(text, 1, TokenEnd(text, 0))

\* `len(truth_first) > 2`
AnyLength(token) == TRUE
LongEnough(token) == Len(token) > 2

_check_correctness(prediction, ground_truth) ==
    LET pred_lower == Strip(Lower(prediction))
        truth_lower == Strip(Lower(ground_truth))
        pred_first == FirstToken(pred_lower)
        truth_first == FirstToken(truth_lower)
    IN  \/ pred_lower = truth_lower
        \/ Contains(pred_lower, truth_lower)
        \/ Contains(truth_lower, pred_lower)
        \/ (pred_first = truth_first /\ LongEnough(truth_first))

\* hashlib.sha256(query.encode()).hexdigest()[:16]
query_hash(query) == Sha256Hex(query, 16)

\* INSERT OR REPLACE: the rows that violate UNIQUE(model, query_hash) with
\* the new row, which REPLACE deletes before it inserts
NoConflict(table, model, qhash) == {}
Conflicting(table, model, qhash) ==
    {r \in table : r.model = model /\ r.query_hash = qhash}

\* the correct column of the inserted row: the INSERT does not name it, so
\* it gets its default, NULL, whatever the deleted row held
KeptCorrect(old) ==
    IF old = {} THEN None ELSE (CHOOSE r \in old : TRUE).correct
NewCorrect(old) == None

\* record_prediction: one INSERT OR REPLACE, committed when the `with`
\* block is left; ground_truth and correct of the new row are NULL
record_prediction(model, query, stated_confidence, prediction) ==
    LET qhash == query_hash(query)
        old == Conflicting(db, model, qhash)
        row == [id |-> next_id, model |-> model, query_hash |-> qhash,
                stated_confidence |-> stated_confidence,
                prediction |-> prediction, ground_truth |-> NullText,
                correct |-> NewCorrect(old), timestamp |-> now]
    IN  /\ txn.pc = "idle"
        /\ next_id <= MaxIds
        /\ db' = (db \ old) \cup {row}
        /\ next_id' = next_id + 1
        /\ cal_call' = [op |-> "record_prediction", result |-> "ok",
                        model |-> model, query |-> query,
                        stated_confidence |-> stated_confidence,
                        prediction |-> prediction,
                        replaced |-> {<<r.id, r.stated_confidence, r.correct>> :
                                        r \in {x \in db : x.model = model
                                                 /\ x.query_hash = qhash}}]
        /\ UNCHANGED <<now, txn, cbVars, rpqVars, retryVars, cacheVars, appVars>>

\* SELECT id, prediction FROM predictions WHERE query_hash = ?
AllRows(table, qhash) == table
Selected(table, qhash) == {r \in table : r.query_hash = qhash}

\* cursor.fetchall(): the selected rows as a list, by id
RECURSIVE FetchAll(_)
FetchAll(rows) ==
    IF rows = {} THEN << >>
    ELSE LET first == CHOOSE r \in rows : \A o \in rows : r.id <= o.id
         IN  <<[id |-> first.id, prediction |-> first.prediction]>>
                \o FetchAll(rows \ {first})

\* UPDATE predictions SET ground_truth = ?, correct = ? WHERE id = ?
Update(table, ground_truth, correct, pred_id) ==
    {IF r.id = pred_id
     THEN [r EXCEPT !.ground_truth = ground_truth, !.correct = correct]
     ELSE r : r \in table}

\* record_outcome opens the connection and reads the rows to update
record_outcome_begin(query, ground_truth) ==
    /\ txn.pc = "idle"
    /\ txn' = [pc |-> "loop", query |-> query, ground_truth |-> ground_truth,
               rows |-> FetchAll(Selected(db, query_hash(query))),
               k |-> 0, work |-> db, before |-> db]
    /\ cal_call' = [op |-> "record_outcome", result |-> "running",
                    query |-> query, ground_truth |-> ground_truth,
                    updated |-> 0, before |-> db]
    /\ UNCHANGED <<now, db, next_id, cbVars, rpqVars, retryVars, cacheVars, appVars>>

\* one round of `for row in cursor.fetchall()`: the UPDATE is made inside
\* the connection's open transaction
record_outcome_update ==
    /\ txn.pc = "loop"
    /\ txn.k < Len(txn.rows)
    /\ LET row == txn.rows[txn.k + 1]
           correct == IF _check_correctness(row.prediction, txn.ground_truth)
                      THEN 1 ELSE 0
       IN  txn' = [txn EXCEPT
                     !.k = @ + 1,
                     !.work = Update(@, txn.ground_truth, correct, row.id)]
    /\ cal_call' = [cal_call EXCEPT !.updated = @ + 1]
    /\ UNCHANGED <<now, db, next_id, cbVars, rpqVars, retryVars, cacheVars, appVars>>

\* leaving `with sqlite3.connect(...) as conn` normally: conn.commit()
record_outcome_commit ==
    /\ txn.pc = "loop"
    /\ txn.k = Len(txn.rows)
    /\ db' = txn.work
    /\ txn' = NoTxn
    /\ cal_call' = [cal_call EXCEPT !.result = "ok"]
    /\ UNCHANGED <<now, next_id, cbVars, rpqVars, retryVars, cacheVars, appVars>>

\* leaving the `with` block by an exception: conn.rollback()
KeepPartial(committed, work) == work
Rollback(committed, work) == committed

\* a statement (or the commit) of record_outcome fails: the connection's
\* context manager rolls back and the exception reaches the caller
record_outcome_fails ==
    /\ txn.pc = "loop"
    /\ db' = Rollback(db, txn.work)
    /\ txn' = NoTxn
    /\ cal_call' = [cal_call EXCEPT !.result = "raised"]
    /\ UNCHANGED <<now, next_id, cbVars, rpqVars, retryVars, cacheVars, appVars>>

\* SELECT stated_confidence, correct FROM predictions
\* WHERE model = ? AND correct IS NOT NULL
CurveRowsOfModel(table, model) == {r \in table : r.model = model}
CurveRows(table, model) ==
    {r \in table : r.model = model /\ r.correct # None}

\* min(1.0, max(0.5, round(confidence, 1))), in tenths
BucketKey(confidence) ==
    IF confidence < 5 THEN 5 ELSE IF confidence > 10 THEN 10 ELSE confidence

\* brier_sum: the sum of (confidence - correct) ** 2, in hundredths
RECURSIVE BrierSum(_)
BrierSum(rows) ==
    IF rows = {} THEN 0
    ELSE LET r == CHOOSE x \in rows : TRUE
             d == r.stated_confidence - 10 * r.correct
         IN  d * d + BrierSum(rows \ {r})

\* brier_score=None
NoScore == << >>

\* get_calibration_curve: buckets maps the keys that have rows to
\* correct / total, brier_score is brier_sum / len(rows); both are kept as
\* <<numerator, denominator>>
get_calibration_curve(model) ==
    LET rows == CurveRows(db, model)
        In(k) == {r \in rows : BucketKey(r.stated_confidence) = k}
        keys == {k \in 5..10 : In(k) # {}}
        curve == IF rows = {}
                 THEN [model |-> model, buckets |-> << >>,
                       total_predictions |-> 0, brier_score |-> NoScore]
                 ELSE [model |-> model,
                       buckets |-> [k \in keys |->
                          <<Cardinality({r \in In(k) : r.correct # 0}),
                            Cardinality(In(k))>>],
                       total_predictions |-> Cardinality(rows),
                       brier_score |-> <<BrierSum(rows), Cardinality(rows)>>]
    IN  /\ txn.pc = "idle"
        /\ cal_call' = [op |-> "get_calibration_curve", result |-> "ok",
                        model |-> model, curve |-> curve]
        /\ UNCHANGED <<now, db, next_id, txn, cbVars, rpqVars, retryVars, cacheVars, appVars>>

NextCal ==
    \/ \E m \in CalModels : get_calibration_curve(m)
    \/ \E m \in CalModels, q \in CalQueries, p \in CalPredictions :
          record_prediction(m, q, p[1], p[2])
    \/ \E q \in CalQueries, g \in TruthTexts : record_outcome_begin(q, g)
    \/ record_outcome_update
    \/ record_outcome_commit
    \/ record_outcome_fails

InitAllCal == now = 0 /\ IdleCB /\ IdleRPQ /\ IdleRetry /\ IdleCache /\ InitCal /\ IdleApp

SpecCal == InitAllCal /\ [][NextCal]_vars

\* ------------------------------------------------------------------------
\* What the workers of a finished fan-out did, by position
\* ------------------------------------------------------------------------
Positions == [i \in 1..Len(rpq_task) |-> i]
ReturnedPositions ==
    SelectSeq(Positions, LAMBDA i : rpq_task[i].how = "returned")
FailedPositions ==
    SelectSeq(Positions, LAMBDA i : rpq_task[i].how \in {"raised", "timed_out"})
ExpectedSuccessful ==
    [k \in 1..Len(ReturnedPositions) |-> Response(rpq_in.models[ReturnedPositions[k]])]
ExpectedFailed ==
    [k \in 1..Len(FailedPositions) |-> rpq_in.models[FailedPositions[k]]]
PositionOf(model) == CHOOSE i \in 1..Len(rpq_in.models) : rpq_in.models[i] = model
CompletionRank(i) == CHOOSE k \in 1..Len(rpq_order) : rpq_order[k] = i

\* C2: the returned successes are exactly the results of the workers that
\* neither timed out nor raised, the returned failed list exactly the ids of
\* those that did, each in input order; every worker is in exactly one of
\* the two lists; nothing is raised when the successes reach min_required.
C2_SuccessesAndFailures ==
    rpq_pc = "done" =>
        /\ rpq_out.kind = "return" =>
              /\ rpq_out.successful = ExpectedSuccessful
              /\ rpq_out.failed = ExpectedFailed
              /\ Len(rpq_out.successful) + Len(rpq_out.failed) = Len(rpq_in.models)
        /\ Len(ReturnedPositions) >= rpq_in.min_required => rpq_out.kind = "return"

\* workers 1 and 3 time out, worker 2 succeeds, min_required is met
C2_Witness ==
    /\ rpq_pc = "done"
    /\ Len(rpq_task) = 3
    /\ rpq_task[1].how = "timed_out"
    /\ rpq_task[2].how = "returned"
    /\ rpq_task[3].how = "timed_out"
    /\ rpq_in.min_required = 1
    /\ rpq_out.kind = "return"
    /\ Len(rpq_out.successful) = 1
    /\ Len(rpq_out.failed) = 2

\* C3: InsufficientResponsesError is raised exactly when the successes are
\* fewer than min_required and allow_partial is false; it carries
\* required = min_required, received = the number of successes and one error
\* message per failed worker; with allow_partial the partial successes and
\* the failed ids are returned, whatever min_required.
C3_InsufficientResponses ==
    rpq_pc = "done" =>
        /\ rpq_out.kind = "raise" <=>
              (Len(ReturnedPositions) < rpq_in.min_required /\ ~rpq_in.allow_partial)
        /\ rpq_out.kind = "raise" =>
              /\ rpq_out.error = "InsufficientResponsesError"
              /\ rpq_out.required = rpq_in.min_required
              /\ rpq_out.received = Len(ReturnedPositions)
              /\ Len(rpq_out.errors) = Len(FailedPositions)
              /\ \A k \in 1..Len(FailedPositions) :
                    rpq_out.errors[k] =
                        ErrStr(rpq_in.models[FailedPositions[k]],
                               rpq_task[FailedPositions[k]].res.message)
        /\ rpq_in.allow_partial =>
              /\ rpq_out.kind = "return"
              /\ rpq_out.successful = ExpectedSuccessful
              /\ rpq_out.failed = ExpectedFailed

\* one success of three workers, two required, partial results disallowed
C3_Witness ==
    /\ rpq_pc = "done"
    /\ rpq_out.kind = "raise"
    /\ rpq_out.required = 2
    /\ rpq_out.received = 1
    /\ Len(rpq_out.errors) = 2
    /\ ~rpq_in.allow_partial

\* C4: whatever the order in which the workers complete, the returned
\* successes and failed ids are ordered by position in the input list.
C4_InputOrder ==
    (rpq_pc = "done" /\ rpq_out.kind = "return") =>
        /\ \A a, b \in 1..Len(rpq_out.successful) :
              a < b => PositionOf(rpq_out.successful[a].model)
                         < PositionOf(rpq_out.successful[b].model)
        /\ \A a, b \in 1..Len(rpq_out.failed) :
              a < b => PositionOf(rpq_out.failed[a]) < PositionOf(rpq_out.failed[b])

\* two successes that completed in the reverse of the input order, and two
\* failures likewise
C4_Witness ==
    /\ rpq_pc = "done"
    /\ rpq_out.kind = "return"
    /\ \E i, j \in 1..Len(rpq_task) :
          /\ i < j
          /\ rpq_task[i].how = "returned"
          /\ rpq_task[j].how = "returned"
          /\ CompletionRank(j) < CompletionRank(i)
          /\ rpq_task[j].finished < rpq_task[i].finished

\* C5: every worker is dispatched when the fan-out is called, without
\* waiting for another worker, and has its own timer: a worker that never
\* completes is reported failed when its own timeout expires, every worker
\* that completes within its own timeout is reported as a success, and the
\* whole fan-out ends within one timeout_per_model of the call.
C5_IndependentTimeouts ==
    rpq_pc = "done" =>
        /\ \A i \in 1..Len(rpq_task) :
              /\ rpq_task[i].started = rpq_task[i].created
              /\ rpq_task[i].how = "timed_out" =>
                    /\ rpq_task[i].finished
                         = rpq_task[i].created + rpq_in.timeout_per_model
                    /\ rpq_out.kind = "return" =>
                          \E k \in 1..Len(rpq_out.failed) :
                              rpq_out.failed[k] = rpq_in.models[i]
                    /\ rpq_out.kind = "raise" =>
                          \E k \in 1..Len(rpq_out.errors) :
                              rpq_out.errors[k] = ErrStr(rpq_in.models[i], "Timeout")
              /\ (rpq_task[i].how = "returned" /\ rpq_out.kind = "return") =>
                    \E k \in 1..Len(rpq_out.successful) :
                        rpq_out.successful[k] = Response(rpq_in.models[i])
        /\ \A i \in 1..Len(rpq_task) :
              rpq_out.at <= rpq_task[i].created + rpq_in.timeout_per_model

\* the first worker never completes; a later worker completes, before the
\* first one's timeout expires, and is returned as a success
C5_Witness ==
    /\ rpq_pc = "done"
    /\ rpq_out.kind = "return"
    /\ Len(rpq_task) >= 2
    /\ rpq_task[1].how = "timed_out"
    /\ \E j \in 2..Len(rpq_task) :
          /\ rpq_task[j].how = "returned"
          /\ rpq_task[j].finished < rpq_task[1].finished
          /\ \E k \in 1..Len(rpq_out.successful) :
                rpq_out.successful[k] = Response(rpq_in.models[j])

\* ------------------------------------------------------------------------
\* C8: the store never holds two rows with the same (model, query_hash);
\* after record_prediction for a pair, present before or not, exactly one
\* row has that pair and it holds the stated_confidence and prediction of
\* that call.
\* ------------------------------------------------------------------------
UniquePairs(table) ==
    \A r1, r2 \in table :
        (r1.model = r2.model /\ r1.query_hash = r2.query_hash) => r1 = r2

C8_UpsertUnique ==
    /\ UniquePairs(db)
    /\ txn.pc = "loop" => UniquePairs(txn.work)
    /\ cal_call.op = "record_prediction" =>
          LET rows == {r \in db : /\ r.model = cal_call.model
                                  /\ r.query_hash = query_hash(cal_call.query)}
          IN  /\ Cardinality(rows) = 1
              /\ \A r \in rows :
                    /\ r.stated_confidence = cal_call.stated_confidence
                    /\ r.prediction = cal_call.prediction

\* a record_prediction replaced a row that held another confidence
C8_Witness ==
    /\ cal_call.op = "record_prediction"
    /\ \E old \in cal_call.replaced : old[2] # cal_call.stated_confidence
    /\ Cardinality(db) >= 2

\* C9: record_outcome(query, ground_truth) sets ground_truth and correct on
\* every row whose query_hash is the hash of query, whatever its model, and
\* changes no row with another query_hash.
C9_BackFill ==
    (cal_call.op = "record_outcome" /\ cal_call.result = "ok") =>
        /\ \A r \in cal_call.before :
              IF r.query_hash = query_hash(cal_call.query)
              THEN [r EXCEPT
                      !.ground_truth = cal_call.ground_truth,
                      !.correct = IF _check_correctness(r.prediction,
                                                        cal_call.ground_truth)
                                  THEN 1 ELSE 0] \in db
              ELSE r \in db
        /\ Cardinality(db) = Cardinality(cal_call.before)

\* an outcome was recorded for a query two models had predicted on, one
\* right and one wrong, while a row of another query stayed without outcome
C9_Witness ==
    /\ cal_call.op = "record_outcome"
    /\ cal_call.result = "ok"
    /\ \E r1, r2, r3 \in db :
          /\ r1.query_hash = query_hash(cal_call.query)
          /\ r2.query_hash = query_hash(cal_call.query)
          /\ r1.model # r2.model
          /\ r1.correct = 1
          /\ r2.correct = 0
          /\ r3.query_hash # query_hash(cal_call.query)
          /\ r3.correct = None
          /\ r3.ground_truth = NullText

\* C10: record_outcome is one transaction: while it runs none of its
\* updates is visible in the store, and when it fails after updating some
\* rows the store is as it was before the call and the caller gets the
\* failure.
C10_AllOrNothing ==
    /\ txn.pc = "loop" => db = txn.before
    /\ (cal_call.op = "record_outcome" /\ cal_call.result # "ok") =>
          db = cal_call.before
    /\ (cal_call.op = "record_outcome" /\ txn.pc = "idle") =>
          cal_call.result \in {"ok", "raised"}

\* record_outcome failed after updating one of the two rows of its query
C10_Witness ==
    /\ cal_call.op = "record_outcome"
    /\ cal_call.result = "raised"
    /\ cal_call.updated = 1
    /\ Cardinality(Selected(cal_call.before, query_hash(cal_call.query))) = 2
    /\ db = cal_call.before

\* ========================================================================
\* The replies of the models: result["content"] and json.loads
\*                 (claims.py 72-75, 94-97; evaluation.py 70-75, 111-116)
\* ========================================================================
\* A reply is a text.  The JSON texts are written out from their members,
\* and json.loads reads a text back into the dict it denotes.
MaxEntries == 2       \* entries of the "claims" list of an extractor reply
MaxResponses == 3     \* responses a judge is asked to rank

\* how a query_model call can end: with a reply {content, ...}, or with an
\* exception (retries and timeouts are layered above it, not inside it)
QueryModelOutcomes == {"returns", "raises"}

\* sep.join(texts)
RECURSIVE Join(_, _)
Join(texts, sep) ==
    IF texts = << >> THEN ""
    ELSE IF Len(texts) = 1 THEN texts[1]
    ELSE texts[1] \o sep \o Join(Tail(texts), sep)

\* JSON literals: a string, a list of literals, an object of <<key, literal>>
Str(s) == "\"" \o s \o "\""
ListLit(lits) == "[" \o Join(lits, ", ") \o "]"
ObjLit(members) ==
    "{" \o Join([i \in 1..Len(members) |->
                    Str(members[i][1]) \o ": " \o members[i][2]], ", ") \o "}"
StrListLit(list) == ListLit([i \in 1..Len(list) |-> Str(list[i])])

\* the objects a verifier sends
VerifierObjects ==
    {<<<<"status", Str("verified_true")>>, <<"source", Str("s1")>>>>,
     <<<<"status", Str("partially_true")>>>>,
     << >>}

\* the objects a pairwise judge sends: by winner and confidence, and one
\* without the required summaries
PairwiseWinners == {Str("A"), Str("B"), Str("tie"), Str("Response A")}
PairwiseObject(winner, confidence) ==
    <<<<"response_a", Str("first")>>, <<"response_b", Str("second")>>,
      <<"winner", winner>>, <<"confidence", confidence>>,
      <<"reasoning", Str("Response A is better")>>>>
PairwiseObjects ==
    {PairwiseObject(w, c) : w \in PairwiseWinners, c \in {"0.9", "1.5"}}
        \cup {<<<<"winner", Str("B")>>, <<"confidence", "0.9">>>>}

\* the lists of strings that occur in replies
StrLists ==
    {<< >>, <<"Response A">>, <<"Response B">>, <<"c1">>,
     <<"Response B", "Response A">>,
     <<"Response A", "Response C", "Response B">>}

\* the objects a ranking judge sends: by rankings and confidence, and one
\* without the required reasoning
RankingLits ==
    {StrListLit(<<"Response B", "Response A">>),
     StrListLit(<<"Response A", "Response C", "Response B">>),
     Str("Response A"), "null"}
RankingObject(rankings, confidence) ==
    <<<<"rankings", rankings>>, <<"confidence", confidence>>,
      <<"reasoning", Str("because")>>>>
RankingObjects ==
    {RankingObject(r, c) : r \in RankingLits, c \in {"0.8", "1.5"}}
        \cup {<<<<"rankings", StrListLit(<<"Response B", "Response A">>)>>>>}

\* the entries of the "claims" list of an extractor reply, by name
EntryNames ==
    {"plain", "contested", "confidence_1_5", "no_supporting", "bad_status",
     "not_object"}
EntryObject(name) ==
    CASE name = "plain" ->
            <<<<"claim", Str("c1")>>,
              <<"supporting_models", StrListLit(<<"Response A">>)>>,
              <<"contradicting_models", StrListLit(<< >>)>>,
              <<"confidence", "0.9">>>>
      [] name = "contested" ->
            <<<<"claim", Str("c2")>>,
              <<"supporting_models", StrListLit(<<"Response A">>)>>,
              <<"contradicting_models", StrListLit(<<"Response B">>)>>,
              <<"confidence", "0.6">>,
              <<"verification_status", Str("contested")>>>>
      [] name = "confidence_1_5" ->
            <<<<"claim", Str("c3")>>,
              <<"supporting_models", StrListLit(<<"Response A">>)>>,
              <<"contradicting_models", StrListLit(<< >>)>>,
              <<"confidence", "1.5">>>>
      [] name = "no_supporting" ->
            <<<<"claim", Str("c4")>>,
              <<"contradicting_models", StrListLit(<<"Response B">>)>>,
              <<"confidence", "0.9">>>>
      [] name = "bad_status" ->
            <<<<"claim", Str("c5")>>,
              <<"supporting_models", StrListLit(<<"Response B">>)>>,
              <<"contradicting_models", StrListLit(<< >>)>>,
              <<"confidence", "0.9">>,
              <<"verification_status", Str("bogus")>>>>
      [] name = "only_contradicting" ->
            <<<<"claim", Str("c7")>>,
              <<"supporting_models", StrListLit(<< >>)>>,
              <<"contradicting_models", StrListLit(<<"Response B">>)>>,
              <<"confidence", "0.8">>>>
EntryLit(name) ==
    IF name = "not_object" THEN Str("c6") ELSE ObjLit(EntryObject(name))
EntryObjects ==
    {EntryObject(name) :
        name \in (EntryNames \cup {"only_contradicting"}) \ {"not_object"}}

\* the "claims" member of an extractor reply: a list of up to MaxEntries
\* entries, null, or an empty object
\* (and one list with an entry that only has contradicting models)
OneSidedList == <<"only_contradicting", "contested">>
EntryLists ==
    UNION {[1..n -> EntryNames] : n \in 0..MaxEntries} \cup {OneSidedList}
ClaimsLit(claims) ==
    IF claims = <<"null">> THEN "null"
    ELSE IF claims = <<"empty_object">> THEN "{}"
    ELSE ListLit([i \in 1..Len(claims) |-> EntryLit(claims[i])])

\* the objects an extractor sends: claims, with or without agreement_score
\* and high_disagreement_claims
ExtractorShapes ==
    [claims : EntryLists \cup {<<"null">>, <<"empty_object">>},
     rest : {"none", "score_0_8", "score_0_8_and_texts", "score_1_5",
             "texts_not_a_list"}]
ExtractorObject(shape) ==
    LET claims == <<<<"claims", ClaimsLit(shape.claims)>>>>
        score == IF shape.rest = "score_1_5"
                 THEN <<<<"agreement_score", "1.5">>>>
                 ELSE IF shape.rest \in {"score_0_8", "score_0_8_and_texts"}
                 THEN <<<<"agreement_score", "0.8">>>>
                 ELSE << >>
        texts == IF shape.rest = "score_0_8_and_texts"
                 THEN <<<<"high_disagreement_claims",
                          StrListLit(<<"c1">>)>>>>
                 ELSE IF shape.rest = "texts_not_a_list"
                 THEN <<<<"high_disagreement_claims", Str("c1")>>>>
                 ELSE << >>
    IN  claims \o score \o texts
ExtractorObjects == {ExtractorObject(shape) : shape \in ExtractorShapes}

\* dict(members)
AsDict(members) ==
    [k \in {members[i][1] : i \in 1..Len(members)} |->
        members[CHOOSE i \in 1..Len(members) : members[i][1] = k][2]]

\* json.loads(text), for a reply whose object texts are those of `objects`:
\* the dict of an object text, another JSON value (a list, a string, null),
\* or JSONDecodeError; the values of the dict are kept as literals and read
\* by the operators below
JsonLoads(objects, text) ==
    IF \E o \in objects : ObjLit(o) = text
    THEN [kind |-> "dict",
          items |-> AsDict(CHOOSE o \in objects : ObjLit(o) = text)]
    ELSE IF \/ text = "null"
            \/ \E l \in StrLists : StrListLit(l) = text
            \/ \E l \in StrLists :
                  Len(l) = 1 /\ Str(l[1]) = text
    THEN [kind |-> "not_a_dict", items |-> EmptyDict]
    ELSE [kind |-> "JSONDecodeError", items |-> EmptyDict]

\* a JSON string literal as a str
IsStr(lit) ==
    /\ Len(lit) >= 2
    /\ SubSeq(lit, 1, 1) = "\""
    /\ SubSeq(lit, Len(lit), Len(lit)) = "\""
Unquote(lit) == SubSeq(lit, 2, Len(lit) - 1)

\* a JSON number literal as a float, in tenths (None: not a number)
Float(lit) ==
    CASE lit = "0.5" -> 5
      [] lit = "0.6" -> 6
      [] lit = "0.8" -> 8
      [] lit = "0.9" -> 9
      [] lit = "1.5" -> 15
      [] OTHER -> None

\* a literal as a list[str]
IsStrList(lit) == \E l \in StrLists : StrListLit(l) = lit
AsStrList(lit) == CHOOSE l \in StrLists : StrListLit(l) = lit

\* Field(ge=0.0, le=1.0) on a float
InUnitInterval(tenths) == tenths >= 0 /\ tenths <= 10

\* the text as the list of its characters
Chars(text) == [i \in 1..Len(text) |-> SubSeq(text, i, i)]

\* ========================================================================
\* verify_claim, verify_all_claims                       (claims.py 87-118)
\* ========================================================================
MaxClaims == 4        \* length of the claims list of verify_all_claims
MaxConcurrent == 3    \* max_concurrent is drawn from 0..MaxConcurrent

\* ExtractedClaim.verification_status: the four values of the Literal
VerificationStatuses ==
    {"unverified", "verified_true", "verified_false", "contested"}

\* the claims of the list as they are passed: unverified ones with no
\* source and contested ones with a source, in turn
PassedClaim(i) ==
    IF i % 2 = 1
    THEN [verification_status |-> "unverified", source |-> "None"]
    ELSE [verification_status |-> "contested", source |-> "s0"]

\* result["content"] of the verifier's reply: an object, a list, prose
VerifierContents ==
    {ObjLit(o) : o \in VerifierObjects}
        \cup {StrListLit(<<"Response A">>), "It is true."}

\* the try block of verify_claim: whether it ends in `except Exception`
\* (json.loads raises, or data has no .get)
VerifyParseFails(content) ==
    JsonLoads(VerifierObjects, content).kind # "dict"

\* the claim after the try block of verify_claim
VerifiedClaim(claim, content) ==
    LET data == JsonLoads(VerifierObjects, content) IN
    IF VerifyParseFails(content)
    THEN claim
    ELSE [claim EXCEPT
            !.verification_status =
                IF "status" \in DOMAIN data.items
                THEN Unquote(data.items["status"]) ELSE "unverified",
            !.source =
                IF "source" \in DOMAIN data.items
                THEN Unquote(data.items["source"]) ELSE "None"]

InitVfy ==
    /\ vfy_pc = "call"
    /\ \E n \in 0..MaxClaims :
          vfy_in \in [claims : {[i \in 1..n |-> PassedClaim(i)]},
                      max_concurrent : 0..MaxConcurrent]
    /\ vfy_claims = vfy_in.claims
    /\ vfy_task = << >>
    /\ vfy_sem = 0
    /\ vfy_out = [kind |-> "none"]

\* semaphore = asyncio.Semaphore(max_concurrent);
\* asyncio.gather(*[verify_with_limit(c) for c in claims]): one task per claim
vfy_call ==
    /\ vfy_pc = "call"
    /\ vfy_sem' = vfy_in.max_concurrent
    /\ vfy_task' = [i \in 1..Len(vfy_in.claims) |->
                       [st |-> "created", how |-> "none"]]
    /\ vfy_pc' = "gather"
    /\ UNCHANGED <<now, vfy_in, vfy_claims, vfy_out, resVars, fnVars, runVars>>

\* Semaphore.acquire does not block: `not self.locked()`
Unlocked(value) == TRUE
NotLocked(value) == value > 0

\* the event loop runs the created tasks in the order gather created them
VfyStartable(i) ==
    /\ vfy_task[i].st = "created"
    /\ \A j \in 1..(i - 1) : vfy_task[j].st # "created"

\* the task enters `async with semaphore`: it takes the semaphore and
\* awaits query_model inside verify_claim, or waits for a release
vfy_start(i) ==
    /\ vfy_pc \in {"gather", "raised"}
    /\ VfyStartable(i)
    /\ IF NotLocked(vfy_sem)
       THEN /\ vfy_sem' = vfy_sem - 1
            /\ vfy_task' = [vfy_task EXCEPT ![i].st = "querying"]
       ELSE /\ vfy_task' = [vfy_task EXCEPT ![i].st = "waiting"]
            /\ UNCHANGED vfy_sem
    /\ UNCHANGED <<now, vfy_pc, vfy_in, vfy_claims, vfy_out, resVars, fnVars, runVars>>

\* a release woke the longest-waiting task: it takes the semaphore
vfy_acquire(i) ==
    /\ vfy_pc \in {"gather", "raised"}
    /\ vfy_task[i].st = "waiting"
    /\ \A j \in 1..(i - 1) : vfy_task[j].st # "waiting"
    /\ NotLocked(vfy_sem)
    /\ vfy_sem' = vfy_sem - 1
    /\ vfy_task' = [vfy_task EXCEPT ![i].st = "querying"]
    /\ UNCHANGED <<now, vfy_pc, vfy_in, vfy_claims, vfy_out, resVars, fnVars, runVars>>

\* query_model returns: the try block of verify_claim runs, the claim is
\* returned and `async with` releases the semaphore
vfy_query_returns(i, content) ==
    /\ vfy_pc \in {"gather", "raised"}
    /\ vfy_task[i].st = "querying"
    /\ vfy_claims' = [vfy_claims EXCEPT ![i] = VerifiedClaim(@, content)]
    /\ vfy_task' = [vfy_task EXCEPT
                      ![i].st = "done",
                      ![i].how = IF VerifyParseFails(content)
                                 THEN "unparsed" ELSE "parsed"]
    /\ vfy_sem' = vfy_sem + 1
    /\ UNCHANGED <<now, vfy_pc, vfy_in, vfy_out, resVars, fnVars, runVars>>

\* `await query_model(...)` raises: the await is before the try block, so
\* the exception leaves verify_claim, `async with` releases the semaphore,
\* and gather (without return_exceptions) hands the first exception to
\* verify_all_claims at once; the other tasks keep running
vfy_query_raises(i) ==
    /\ "raises" \in QueryModelOutcomes
    /\ vfy_pc \in {"gather", "raised"}
    /\ vfy_task[i].st = "querying"
    /\ vfy_task' = [vfy_task EXCEPT ![i].st = "done", ![i].how = "raised"]
    /\ vfy_sem' = vfy_sem + 1
    /\ IF vfy_pc = "gather"
       THEN /\ vfy_pc' = "raised"
            /\ vfy_out' = [kind |-> "raise", claims |-> << >>]
       ELSE UNCHANGED <<vfy_pc, vfy_out>>
    /\ UNCHANGED <<now, vfy_in, vfy_claims, resVars, fnVars, runVars>>

\* every task returned its claim: `return list(verified)`
vfy_finish ==
    /\ vfy_pc = "gather"
    /\ \A i \in 1..Len(vfy_task) : vfy_task[i].st = "done"
    /\ vfy_out' = [kind |-> "return",
                   claims |-> [i \in 1..Len(vfy_task) |-> i]]
    /\ vfy_pc' = "done"
    /\ UNCHANGED <<now, vfy_in, vfy_claims, vfy_task, vfy_sem, resVars, fnVars, runVars>>

NextVfy ==
    \/ vfy_call
    \/ \E i \in 1..Len(vfy_task) : vfy_start(i)
    \/ \E i \in 1..Len(vfy_task) : vfy_acquire(i)
    \/ \E i \in 1..Len(vfy_task), c \in VerifierContents :
          vfy_query_returns(i, c)
    \/ \E i \in 1..Len(vfy_task) : vfy_query_raises(i)
    \/ vfy_finish

InitAllVfy ==
    /\ now = 0 /\ IdleCB /\ IdleRPQ /\ IdleRetry /\ IdleCache /\ InitCal
    /\ InitVfy /\ IdleFn /\ IdleRun

SpecVfy == InitAllVfy /\ [][NextVfy]_vars

\* the verifications in flight: the tasks that hold the semaphore
InFlight == {i \in 1..Len(vfy_task) : vfy_task[i].st = "querying"}

\* C11: during verify_all_claims at most max_concurrent verifications are
\* in flight at any time, for any number of claims and any interleaving.
C11_BoundedConcurrency ==
    /\ Cardinality(InFlight) <= vfy_in.max_concurrent
    /\ vfy_pc # "call" =>
          vfy_sem + Cardinality(InFlight) = vfy_in.max_concurrent

\* more claims than max_concurrent: the gate is full, a task waits for it
\* and an earlier verification has already finished
C11_Witness ==
    /\ Len(vfy_in.claims) > vfy_in.max_concurrent
    /\ vfy_in.max_concurrent >= 1
    /\ Cardinality(InFlight) = vfy_in.max_concurrent
    /\ \E i \in 1..Len(vfy_task) : vfy_task[i].st = "waiting"
    /\ \E i \in 1..Len(vfy_task) : vfy_task[i].st = "done"

\* C12: when the verification of a claim fails (the verifier call raises
\* or its output cannot be parsed) the failure is caught locally: the
\* claim's verification_status and source stay as they were, and
\* verify_all_claims returns every claim instead of raising.
C12_FailuresCaught ==
    /\ \A i \in 1..Len(vfy_task) :
          vfy_task[i].how \in {"unparsed", "raised"} =>
              vfy_claims[i] = vfy_in.claims[i]
    /\ vfy_out.kind # "raise"
    /\ vfy_out.kind = "return" =>
          vfy_out.claims = [i \in 1..Len(vfy_in.claims) |-> i]

\* C19: after any sequence of verify_claim calls every claim's
\* verification_status is one of unverified, verified_true, verified_false,
\* contested, whatever status text the verifier returns.
C19_StatusInDomain ==
    \A i \in 1..Len(vfy_claims) :
        vfy_claims[i].verification_status \in VerificationStatuses

\* ------------------------------------------------------------------------
\* C15 (as stated): once M's circuit opens at time t, is_open(M) is true at
\* every time before t + recovery_timeout and false from
\* t + recovery_timeout on, whatever record_success or record_failure
\* calls are made in between.
\* ------------------------------------------------------------------------
C15_AsStated ==
    (cb_call.op = "is_open" /\ cb_call.before.opened # None) =>
        (cb_call.ret <=>
            cb_call.at < cb_call.before.opened + recovery_timeout)

\* C15 (amended): once M's circuit opens at time t, is_open(M) is true at
\* every time before t + recovery_timeout, whatever record_success or
\* record_failure calls are made in between; it is false from
\* t' + recovery_timeout on, where t' >= t is the time of the last
\* record_failure(M) call that found M's counter at failure_threshold or
\* more (every such call restarts the cooldown).
C15_OpenUntilLastTrip ==
    (cb_call.op = "is_open" /\ cb_call.before.opened # None) =>
        /\ cb_call.before.tripped >= cb_call.before.opened
        /\ cb_call.at < cb_call.before.opened + recovery_timeout
              => cb_call.ret
        /\ cb_call.ret <=>
              cb_call.at < cb_call.before.tripped + recovery_timeout

\* is_open is still true a full recovery_timeout after the circuit opened:
\* a record_failure made while it was open restarted the cooldown
C15_Witness ==
    /\ cb_call.op = "is_open"
    /\ cb_call.ret
    /\ cb_call.before.opened # None
    /\ cb_call.at >= cb_call.before.opened + recovery_timeout
    /\ cb_call.before.tripped > cb_call.before.opened
    /\ cb_call.before.consec = 0

\* ========================================================================
\* The fan-out next to the CircuitBreaker    (resilience.py 70-115, 153-190)
\* ========================================================================
\* resilient_parallel_query takes its models from the caller alone: neither
\* it nor query_with_timeout reads the CircuitBreaker.  Here the breaker
\* records failures of the models, then a fan-out over them is called.

InitGate ==
    /\ InitCB
    /\ rpq_pc = "call"
    /\ rpq_in \in [models : {<<"a">>, <<"b", "a">>},
                   min_required : {0},
                   timeout_per_model : {1},
                   allow_partial : {TRUE}]
    /\ rpq_task = << >>
    /\ rpq_order = << >>
    /\ rpq_out = [kind |-> "none"]

\* the list get_available_models(models) returns: the models m, in order,
\* for which is_open(m) is false
RECURSIVE get_available_models(_)
get_available_models(models) ==
    IF models = << >> THEN << >>
    ELSE (IF IsOpenResult(Head(models)) THEN << >> ELSE <<Head(models)>>)
            \o get_available_models(Tail(models))

NextGate ==
    \/ rpq_pc = "call" /\ TickCB
    \/ \E m \in Models : rpq_pc = "call" /\ record_failure(m)
    \/ NextRPQ

InitAllGate == now = 0 /\ InitGate /\ IdleRetry /\ IdleCache /\ InitCal /\ IdleApp

SpecGate == InitAllGate /\ [][NextGate]_vars

\* C14: the resilient fan-out never invokes the worker of a model whose
\* circuit is open: a model that reached failure_threshold consecutive
\* failures is left out of dispatch until its cooldown has elapsed.
C14_OpenModelsLeftOut ==
    \A i \in 1..Len(rpq_task) :
        (rpq_task[i].st = "running" /\ rpq_task[i].started = now) =>
            /\ ~IsOpenResult(rpq_in.models[i])
            /\ rpq_in.models[i] \in
                  {get_available_models(rpq_in.models)[k] :
                      k \in 1..Len(get_available_models(rpq_in.models))}

\* ========================================================================
\* pairwise_compare, structured_ranking              (evaluation.py 57-129)
\* extract_claims                                        (claims.py 53-84)
\* ========================================================================
\* Each call awaits one reply of query_model and reads it.  A reply is
\* kept with how it was written: `text` is result["content"], the other
\* fields say what the text is.

\* the text without its last character (a reply that was cut off)
Cut(text) == SubSeq(text, 1, Len(text) - 1)

\* ---------------------------------------------------- pairwise_compare
\* replies of a pairwise judge: an object (valid when its winner is A, B or
\* tie and its confidence is in [0, 1]), a cut object, an object without
\* the required summaries, a list, prose
ProseSubjects ==
    {[text |-> "Response A", mentions |-> "a"],
     [text |-> "I find response B", mentions |-> "b"],
     [text |-> "RESPONSE B beats Response A and", mentions |-> "both"],
     [text |-> "Neither", mentions |-> "none"]}
ProseVerdicts ==
    {[text |-> "better", better |-> TRUE],
     [text |-> "BETTER.", better |-> TRUE],
     [text |-> "worse", better |-> FALSE]}
PairwiseReplies ==
    {[how |-> "object", text |-> ObjLit(PairwiseObject(w, c)),
      valid |-> (w # Str("Response A") /\ c = "0.9"),
      mentions |-> "a", better |-> TRUE] :
        w \in PairwiseWinners, c \in {"0.9", "1.5"}}
    \cup
    {[how |-> "cut", text |-> Cut(ObjLit(PairwiseObject(w, "0.9"))),
      valid |-> FALSE, mentions |-> "a", better |-> TRUE] :
        w \in PairwiseWinners}
    \cup
    {[how |-> "incomplete",
      text |-> ObjLit(<<<<"winner", Str("B")>>, <<"confidence", "0.9">>>>),
      valid |-> FALSE, mentions |-> "none", better |-> FALSE],
     [how |-> "list", text |-> StrListLit(<<"Response B">>),
      valid |-> FALSE, mentions |-> "b", better |-> FALSE]}
    \cup
    {[how |-> "prose", text |-> s.text \o " is " \o v.text,
      valid |-> FALSE, mentions |-> s.mentions, better |-> v.better] :
        s \in ProseSubjects, v \in ProseVerdicts}

\* the two responses compared: dicts with "model" and "content"
JudgedModels == <<"m1", "m2", "m3", "m4", "m5", "m6">>
JudgedResponse(i) == [model |-> JudgedModels[i], content |-> "answer"]

\* PairwiseComparison(**data) does not raise ValidationError
\* (schemas.py 20-26)
ValidPairwise(items) ==
    /\ {"response_a", "response_b", "winner", "confidence", "reasoning"}
          \subseteq DOMAIN items
    /\ IsStr(items["response_a"])
    /\ IsStr(items["response_b"])
    /\ IsStr(items["reasoning"])
    /\ items["winner"] \in {Str("A"), Str("B"), Str("tie")}
    /\ Float(items["confidence"]) # None
    /\ InUnitInterval(Float(items["confidence"]))

\* the try block of pairwise_compare ends in `except Exception`
PairwiseTryFails(text) ==
    LET data == JsonLoads(PairwiseObjects, text)
    IN  data.kind # "dict" \/ ~ValidPairwise(data.items)

\* `"response a" in content and "better" in content`, on the lowered text
FallbackWinner(text) ==
    LET content == Lower(Chars(text)) IN
    IF /\ Contains(content, Chars("response a"))
       /\ Contains(content, Chars("better"))
    THEN "A"
    ELSE IF /\ Contains(content, Chars("response b"))
            /\ Contains(content, Chars("better"))
    THEN "B"
    ELSE "tie"

\* what pairwise_compare returns for the reply `text`
PairwiseResult(response_a, response_b, text) ==
    IF PairwiseTryFails(text)
    THEN [response_a |-> response_a.model, response_b |-> response_b.model,
          winner |-> FallbackWinner(text), confidence |-> 5,
          reasoning |-> "Fallback parsing"]
    ELSE LET items == JsonLoads(PairwiseObjects, text).items
         IN  [response_a |-> Unquote(items["response_a"]),
              response_b |-> Unquote(items["response_b"]),
              winner |-> Unquote(items["winner"]),
              confidence |-> Float(items["confidence"]),
              reasoning |-> Unquote(items["reasoning"])]

\* the call, once query_model has returned the reply
pairwise_compare ==
    /\ fn_call.op = "pairwise_compare"
    /\ fn_call.out.kind = "awaiting"
    /\ fn_call.reply.how # "none"
    /\ fn_call' = [fn_call EXCEPT !.out =
                     [kind |-> "return",
                      value |-> PairwiseResult(fn_call.responses[1],
                                               fn_call.responses[2],
                                               fn_call.reply.text)]]
    /\ UNCHANGED <<now, resVars, vfyVars, runVars>>

\* -------------------------------------------------- structured_ranking
\* replies of a ranking judge, with the labels "Response X" (X in A..F)
\* their text holds, in order
RankingReplies ==
    {[how |-> "object", text |-> ObjLit(RankingObject(r.lit, c)),
      valid |-> (r.list /\ c = "0.8"), labels |-> r.labels] :
        r \in {[lit |-> StrListLit(<<"Response B", "Response A">>),
                list |-> TRUE, labels |-> <<"B", "A">>],
               [lit |-> StrListLit(<<"Response A", "Response C",
                                     "Response B">>),
                list |-> TRUE, labels |-> <<"A", "C", "B">>],
               [lit |-> Str("Response A"),
                list |-> FALSE, labels |-> <<"A">>],
               [lit |-> "null", list |-> FALSE, labels |-> << >>]},
        c \in {"0.8", "1.5"}}
    \cup
    {[how |-> "cut",
      text |-> Cut(ObjLit(RankingObject(
                  StrListLit(<<"Response B", "Response A">>), "0.8"))),
      valid |-> FALSE, labels |-> <<"B", "A">>],
     [how |-> "incomplete",
      text |-> ObjLit(<<<<"rankings",
                          StrListLit(<<"Response B", "Response A">>)>>>>),
      valid |-> FALSE, labels |-> <<"B", "A">>],
     [how |-> "prose", text |-> "Response C, then Response A",
      valid |-> FALSE, labels |-> <<"C", "A">>],
     [how |-> "prose", text |-> "Response B. Response B! Not Response G",
      valid |-> FALSE, labels |-> <<"B", "B">>],
     [how |-> "prose", text |-> "response a is the best response",
      valid |-> FALSE, labels |-> << >>],
     [how |-> "prose", text |-> "",
      valid |-> FALSE, labels |-> << >>]}

\* ModelEvaluation(**data) does not raise ValidationError
\* (schemas.py 29-34)
ValidEvaluation(items) ==
    /\ {"rankings", "confidence", "reasoning"} \subseteq DOMAIN items
    /\ IsStrList(items["rankings"])
    /\ Float(items["confidence"]) # None
    /\ InUnitInterval(Float(items["confidence"]))
    /\ IsStr(items["reasoning"])

\* the try block of structured_ranking ends in `except Exception`
RankingTryFails(text) ==
    LET data == JsonLoads(RankingObjects, text)
    IN  data.kind # "dict" \/ ~ValidEvaluation(data.items)

\* re.findall(r"Response ([A-F])", text): the groups of the matches at or
\* after position i, from left to right
RECURSIVE FindAll(_, _)
FindAll(text, i) ==
    IF i + 9 > Len(text) THEN << >>
    ELSE IF /\ SubSeq(text, i, i + 8) = "Response "
            /\ SubSeq(text, i + 9, i + 9) \in {"A", "B", "C", "D", "E", "F"}
    THEN <<SubSeq(text, i + 9, i + 9)>> \o FindAll(text, i + 10)
    ELSE FindAll(text, i + 1)

\* f"Response {chr(65+i)}" for i in range(n)
Chr65 == <<"A", "B", "C", "D", "E", "F", "G", "H">>
AllLabels(n) == [i \in 1..n |-> "Response " \o Chr65[i]]

\* the rankings of the fallback
FallbackRankingsFirstOnly(text, n) ==
    LET matches == FindAll(text, 1)
    IN  IF matches = << >> THEN AllLabels(n)
        ELSE <<"Response " \o matches[1]>>
FallbackRankings(text, n) ==
    LET matches == FindAll(text, 1)
        rankings == [k \in 1..Len(matches) |-> "Response " \o matches[k]]
    IN  IF rankings = << >> THEN AllLabels(n) ELSE rankings

\* what structured_ranking returns for the reply `text` on n responses
RankingResult(n, text) ==
    IF RankingTryFails(text)
    THEN [rankings |-> FallbackRankings(text, n), confidence |-> 5,
          reasoning |-> "Fallback parsing", dissent |-> "None"]
    ELSE LET items == JsonLoads(RankingObjects, text).items
         IN  [rankings |-> AsStrList(items["rankings"]),
              confidence |-> Float(items["confidence"]),
              reasoning |-> Unquote(items["reasoning"]),
              dissent |-> "None"]

structured_ranking ==
    /\ fn_call.op = "structured_ranking"
    /\ fn_call.out.kind = "awaiting"
    /\ fn_call.reply.how # "none"
    /\ fn_call' = [fn_call EXCEPT !.out =
                     [kind |-> "return",
                      value |-> RankingResult(Len(fn_call.responses),
                                              fn_call.reply.text)]]
    /\ UNCHANGED <<now, resVars, vfyVars, runVars>>

\* ------------------------------------------------------ extract_claims
\* replies of the extractor: an object of one of the shapes, a cut object,
\* a list, prose
ExtractorReplies ==
    {[how |-> "object", text |-> ObjLit(ExtractorObject(shape)),
      claims |-> shape.claims, rest |-> shape.rest] :
        shape \in ExtractorShapes}
    \cup
    {[how |-> "cut",
      text |-> Cut(ObjLit(ExtractorObject(
                  [claims |-> <<"plain">>, rest |-> "score_0_8"]))),
      claims |-> <<"plain">>, rest |-> "score_0_8"],
     [how |-> "list", text |-> StrListLit(<<"c1">>),
      claims |-> << >>, rest |-> "none"],
     [how |-> "prose", text |-> "The responses agree.",
      claims |-> << >>, rest |-> "none"]}

\* ExtractedClaim(**c) does not raise: c is a dict with the required
\* fields, confidence in [0, 1], verification_status one of the Literal
\* (schemas.py 37-44)
ValidClaimAnyConfidence(c) ==
    /\ c.kind = "dict"
    /\ {"claim", "supporting_models", "contradicting_models"}
          \subseteq DOMAIN c.items
ValidClaim(c) ==
    /\ c.kind = "dict"
    /\ {"claim", "supporting_models", "contradicting_models", "confidence"}
          \subseteq DOMAIN c.items
    /\ IsStr(c.items["claim"])
    /\ IsStrList(c.items["supporting_models"])
    /\ IsStrList(c.items["contradicting_models"])
    /\ Float(c.items["confidence"]) # None
    /\ InUnitInterval(Float(c.items["confidence"]))
    /\ "verification_status" \in DOMAIN c.items =>
          /\ IsStr(c.items["verification_status"])
          /\ Unquote(c.items["verification_status"]) \in VerificationStatuses

\* the ExtractedClaim built from a valid entry
ClaimOf(c) ==
    [claim |-> Unquote(c.items["claim"]),
     supporting_models |-> AsStrList(c.items["supporting_models"]),
     contradicting_models |-> AsStrList(c.items["contradicting_models"]),
     confidence |-> Float(c.items["confidence"]),
     verification_status |->
        IF "verification_status" \in DOMAIN c.items
        THEN Unquote(c.items["verification_status"]) ELSE "unverified",
     source |-> "None"]

\* `for c in data.get("claims", [])`: the entries the loop visits, as
\* texts; iterating null raises, iterating an empty object visits nothing
ClaimsIterable(items) ==
    "claims" \in DOMAIN items => items["claims"] # "null"
ClaimsEntries(items) ==
    IF "claims" \notin DOMAIN items \/ items["claims"] = "{}"
    THEN << >>
    ELSE LET names == CHOOSE l \in EntryLists : ClaimsLit(l) = items["claims"]
         IN  [i \in 1..Len(names) |-> EntryLit(names[i])]

\* ClaimExtractionResult(...) does not raise (schemas.py 47-51)
ValidExtraction(items) ==
    /\ "agreement_score" \in DOMAIN items =>
          /\ Float(items["agreement_score"]) # None
          /\ InUnitInterval(Float(items["agreement_score"]))
    /\ "high_disagreement_claims" \in DOMAIN items =>
          IsStrList(items["high_disagreement_claims"])

\* the try block of extract_claims ends in `except Exception`
ExtractTryFails(text) ==
    LET data == JsonLoads(ExtractorObjects, text) IN
    \/ data.kind # "dict"
    \/ ~ClaimsIterable(data.items)
    \/ \E i \in 1..Len(ClaimsEntries(data.items)) :
          ~ValidClaim(JsonLoads(EntryObjects, ClaimsEntries(data.items)[i]))
    \/ ~ValidExtraction(data.items)

\* what extract_claims returns for the reply `text`
ExtractResult(text) ==
    IF ExtractTryFails(text)
    THEN [claims |-> << >>, agreement_score |-> 5,
          high_disagreement_claims |-> << >>]
    ELSE LET items == JsonLoads(ExtractorObjects, text).items
             entries == ClaimsEntries(items)
         IN  [claims |-> [i \in 1..Len(entries) |->
                            ClaimOf(JsonLoads(EntryObjects, entries[i]))],
              agreement_score |->
                 IF "agreement_score" \in DOMAIN items
                 THEN Float(items["agreement_score"]) ELSE 5,
              high_disagreement_claims |->
                 IF "high_disagreement_claims" \in DOMAIN items
                 THEN AsStrList(items["high_disagreement_claims"])
                 ELSE << >>]

extract_claims ==
    /\ fn_call.op = "extract_claims"
    /\ fn_call.out.kind = "awaiting"
    /\ fn_call.reply.how # "none"
    /\ fn_call' = [fn_call EXCEPT !.out =
                     [kind |-> "return",
                      value |-> ExtractResult(fn_call.reply.text)]]
    /\ UNCHANGED <<now, resVars, vfyVars, runVars>>

\* `await query_model(...)` raises: in the three functions the await is
\* before the try block, so the exception reaches the caller
query_model_raises ==
    /\ "raises" \in QueryModelOutcomes
    /\ fn_call.op # "none"
    /\ fn_call.out.kind = "awaiting"
    /\ fn_call.reply.how = "none"
    /\ fn_call' = [fn_call EXCEPT !.out = [kind |-> "raise"]]
    /\ UNCHANGED <<now, resVars, vfyVars, runVars>>

\* a call that awaits query_model: its arguments and the reply query_model
\* is going to return (NoReply: it is going to raise)
NoReply == [how |-> "none", text |-> ""]
Awaiting(op, responses, reply) ==
    [op |-> op, responses |-> responses, reply |-> reply,
     out |-> [kind |-> "awaiting"]]

InitJudge ==
    \/ \E i, j \in 1..2, reply \in PairwiseReplies \cup {NoReply} :
          /\ i # j
          /\ fn_call = Awaiting("pairwise_compare",
                                <<JudgedResponse(i), JudgedResponse(j)>>,
                                reply)
    \/ \E n \in 1..MaxResponses, reply \in RankingReplies \cup {NoReply} :
          fn_call = Awaiting("structured_ranking",
                             [i \in 1..n |-> JudgedResponse(i)], reply)
    \/ \E reply \in ExtractorReplies \cup {NoReply} :
          fn_call = Awaiting("extract_claims",
                             [i \in 1..2 |-> JudgedResponse(i)], reply)

NextJudge ==
    \/ pairwise_compare
    \/ structured_ranking
    \/ extract_claims
    \/ query_model_raises

InitAllJudge ==
    /\ now = 0 /\ IdleCB /\ IdleRPQ /\ IdleRetry /\ IdleCache /\ InitCal
    /\ IdleVfy /\ InitJudge /\ IdleRun

SpecJudge == InitAllJudge /\ [][NextJudge]_vars

\* the extractor reply is an object of the expected structure: a list of
\* valid claims (an empty object in its place is read as no claims), a
\* score in [0, 1] or none, a list of texts or none
ExpectedStructure(reply) ==
    /\ reply.how = "object"
    /\ reply.claims # <<"null">>
    /\ reply.claims # <<"empty_object">> =>
          \A i \in 1..Len(reply.claims) :
              reply.claims[i] \in {"plain", "contested", "only_contradicting"}
    /\ reply.rest \in {"none", "score_0_8", "score_0_8_and_texts"}

\* C16: extract_claims returns an empty claim list with agreement 0.5 and
\* no contested texts whenever the extractor output cannot be parsed into
\* the expected structure (also when a single claim entry is invalid), and
\* never raises in that case.
C16_UnparsableGivesEmpty ==
    (/\ fn_call.op = "extract_claims"
     /\ fn_call.out.kind # "awaiting"
     /\ fn_call.reply.how # "none"
     /\ ~ExpectedStructure(fn_call.reply)) =>
        /\ fn_call.out.kind = "return"
        /\ fn_call.out.value = [claims |-> << >>, agreement_score |-> 5,
                                high_disagreement_claims |-> << >>]

\* one entry with confidence 1.5 next to a valid one, in a reply that
\* carries a score of 0.8: the result is the empty one with 0.5
C16_Witness ==
    /\ fn_call.op = "extract_claims"
    /\ fn_call.out.kind = "return"
    /\ fn_call.reply.how = "object"
    /\ fn_call.reply.claims = <<"plain", "confidence_1_5">>
    /\ fn_call.reply.rest = "score_0_8"
    /\ fn_call.out.kind = "return"
    /\ fn_call.out.value.claims = << >>
    /\ fn_call.out.value.agreement_score = 5

\* the winner the text pattern gives for a reply that mentions the
\* responses and "better" as `reply` says
PatternWinner(reply) ==
    IF reply.better /\ reply.mentions \in {"a", "both"} THEN "A"
    ELSE IF reply.better /\ reply.mentions = "b" THEN "B"
    ELSE "tie"

\* C17: when a judge's output cannot be parsed, pairwise_compare returns a
\* comparison with confidence 0.5 whose winner comes from the text pattern
\* or else is tie, and structured_ranking returns a ranking with
\* confidence 0.5 built from the response labels found in the text or else
\* from all labels in input order; neither raises.
C17_JudgeFallbacks ==
    /\ (/\ fn_call.op = "pairwise_compare"
        /\ fn_call.out.kind # "awaiting"
        /\ fn_call.reply.how # "none"
        /\ ~fn_call.reply.valid) =>
           /\ fn_call.out.kind = "return"
           /\ fn_call.out.value.confidence = 5
           /\ fn_call.out.value.winner = PatternWinner(fn_call.reply)
    /\ (/\ fn_call.op = "structured_ranking"
        /\ fn_call.out.kind # "awaiting"
        /\ fn_call.reply.how # "none"
        /\ ~fn_call.reply.valid) =>
           /\ fn_call.out.kind = "return"
           /\ fn_call.out.value.confidence = 5
           /\ fn_call.out.value.rankings =
                 IF fn_call.reply.labels = << >>
                 THEN [i \in 1..Len(fn_call.responses) |->
                          "Response " \o Chr65[i]]
                 ELSE [k \in 1..Len(fn_call.reply.labels) |->
                          "Response " \o fn_call.reply.labels[k]]

\* a ranking judge sent an object whose confidence is out of range: the
\* ranking is read from the labels in its text, B before A
C17_Witness ==
    /\ fn_call.op = "structured_ranking"
    /\ fn_call.out.kind = "return"
    /\ fn_call.reply.how = "object"
    /\ ~fn_call.reply.valid
    /\ Len(fn_call.responses) = 3
    /\ fn_call.out.value.rankings = <<"Response B", "Response A">>
    /\ fn_call.out.value.confidence = 5


\* ------------------------------------------------------------------------
\* C20: get_calibration_curve(model) counts exactly the rows of that model
\* whose correct is set: total_predictions is their number, rows without
\* an outcome and rows of other models never contribute, and with no such
\* row the curve is empty (no buckets, total_predictions 0, no Brier
\* score) and the call does not fail.
C20_CurveCountsCompleted ==
    cal_call.op = "get_calibration_curve" =>
        LET mine == {r \in db : r.model = cal_call.model}
            open == {r \in mine : r.correct = None}
            curve == cal_call.curve
        IN  /\ cal_call.result = "ok"
            /\ curve.total_predictions
                 = Cardinality(db) - Cardinality(db \ mine) - Cardinality(open)
            /\ mine \ open = {} =>
                  /\ curve.buckets = << >>
                  /\ curve.total_predictions = 0
                  /\ curve.brier_score = NoScore
            /\ mine \ open # {} =>
                  /\ curve.brier_score # NoScore
                  /\ curve.brier_score[2] = Cardinality(mine \ open)

\* the curve of a model that has a completed row and a row without an
\* outcome, while another model has a completed row too
C20_Witness ==
    /\ cal_call.op = "get_calibration_curve"
    /\ cal_call.curve.total_predictions = 1
    /\ \E r \in db : r.model = cal_call.model /\ r.correct = None
    /\ \E r \in db : r.model = cal_call.model /\ r.correct # None
    /\ \E r \in db : r.model # cal_call.model /\ r.correct # None

\* ========================================================================
\* compute_kendalls_w, detect_disagreement         (evaluation.py 208-278)
\* ========================================================================
\* A rankings dict is the sequence of its items in insertion order, each
\* [judge |-> model, ranking |-> list of labels]. A float is kept as the
\* fraction <<numerator, denominator>> in lowest terms.
RECURSIVE GCD(_, _)
GCD(a, b) == IF b = 0 THEN a ELSE GCD(b, a % b)

Frac(n, d) == IF n = 0 THEN <<0, 1>> ELSE <<n \div GCD(n, d), d \div GCD(n, d)>>
FracGt(x, y) == x[1] * y[2] > y[1] * x[2]
FracGeq(x, y) == x[1] * y[2] >= y[1] * x[2]

RECURSIVE SumSeq(_)
SumSeq(s) == IF s = << >> THEN 0 ELSE Head(s) + SumSeq(Tail(s))

\* ranks = {item: i + 1 for i, item in enumerate(ranking)};
\* ranks.get(item, n_items): of a repeated item the last place counts
RankOf(ranking, item, n_items) ==
    LET places == {i \in 1..Len(ranking) : ranking[i] = item}
    IN  IF places = {} THEN n_items
        ELSE CHOOSE i \in places : \A j \in places : j <= i

\* `if len(rankings) < 2`, `if n_items < 2`
IsEmpty(n) == n < 1
FewerThanTwo(n) == n < 2

\* min(max(W, 0.0), 1.0) for W = n / d, d > 0
Unclamped(n, d) == Frac(n, d)
Clamped(n, d) ==
    IF n >= d THEN <<1, 1>> ELSE IF n <= 0 THEN <<0, 1>> ELSE Frac(n, d)

compute_kendalls_w(rankings) ==
    IF FewerThanTwo(Len(rankings)) THEN <<1, 1>>
    ELSE
    LET items == rankings[1].ranking
        n_items == Len(items)
        n_judges == Len(rankings)
        rank_sums == [k \in 1..n_items |->
                        SumSeq([j \in 1..n_judges |->
                           RankOf(rankings[j].ranking, items[k], n_items)])]
        \* S = sum of (rs - mean_rank_sum) ** 2, times n_items
        S_n == n_items * SumSeq([k \in 1..n_items |-> rank_sums[k] * rank_sums[k]])
                 - SumSeq(rank_sums) * SumSeq(rank_sums)
        \* S_max = n_judges ** 2 * (n_items ** 3 - n_items) / 12, times 12
        S_max_12 == n_judges * n_judges
                      * (n_items * n_items * n_items - n_items)
    IN  IF FewerThanTwo(n_items) THEN <<1, 1>>
        ELSE IF S_max_12 <= 0 THEN <<0, 1>>
        ELSE Clamped(12 * S_n, n_items * S_max_12)

\* first_choice = ranking[0] if ranking else "unknown"
LastChoice(ranking) ==
    IF ranking = << >> THEN "unknown" ELSE ranking[Len(ranking)]
FirstChoice(ranking) == IF ranking = << >> THEN "unknown" ELSE ranking[1]

\* factions_dict in insertion order: one faction per first choice, by
\* first appearance, with its judges in the order of the rankings
Factions(rankings) ==
    LET first(j) == FirstChoice(rankings[j].ranking)
        opens == {j \in 1..Len(rankings) :
                     \A i \in 1..(j - 1) : first(i) # first(j)}
        nth(k) == CHOOSE j \in opens :
                     Cardinality({i \in opens : i <= j}) = k
        members(p) == {j \in 1..Len(rankings) : first(j) = p}
        member(p, k) == CHOOSE j \in members(p) :
                           Cardinality({i \in members(p) : i <= j}) = k
    IN  [k \in 1..Cardinality(opens) |->
           [position |-> first(nth(k)),
            models |-> [i \in 1..Cardinality(members(first(nth(k)))) |->
                          rankings[member(first(nth(k)), i)].judge]]]

detect_disagreement(rankings, threshold) ==
    LET W == compute_kendalls_w(rankings)
    IN  IF FracGeq(W, threshold)
        THEN [has_consensus |-> TRUE, agreement_score |-> W,
              factions |-> << >>,
              recommendation |-> "Council reached consensus"]
        ELSE [has_consensus |-> FALSE, agreement_score |-> W,
              factions |-> Factions(rankings),
              recommendation |->
                 "Council disagrees. Review competing positions."]

\* `query_lower = query.lower()`, `any(kw in query_lower for kw in [...])`
HasKeyword(query_lower, keywords) ==
    \E kw \in keywords : Contains(query_lower, Chars(kw))

classify_query_domain(query) ==
    LET query_lower == Lower(query)
    IN  IF HasKeyword(query_lower, {"code", "program", "function", "bug",
                                    "error", "python", "javascript"})
        THEN "code"
        ELSE IF HasKeyword(query_lower, {"math", "calculate", "equation",
                                         "prove", "theorem"})
        THEN "math"
        ELSE IF HasKeyword(query_lower, {"write", "story", "poem",
                                         "creative", "imagine"})
        THEN "creative"
        ELSE IF HasKeyword(query_lower, {"why", "how", "explain", "reason",
                                         "logic"})
        THEN "reasoning"
        ELSE "factual"

\* ========================================================================
\* run_enhanced_council                        (council_enhanced.py 29-141)
\* ========================================================================
\* The call is suspended at four awaits: stage1_collect_responses,
\* stage2_collect_rankings, extract_claims and stage3_synthesize_final.
\* The three stage functions and calculate_aggregate_rankings belong to
\* the council module the orchestrator imports; they are taken as the
\* external collaborators they are described as: each returns a value of
\* its shape or raises.
MaxStage1 == 2        \* responses stage 1 returns: 0..MaxStage1
MaxJudges == 2        \* results stage 2 returns: 0..MaxJudges

RunQueries == {Chars("Why?"), Chars("fix my Code")}
CouncilModels == <<"m1", "m2", "m3", "m4">>
Answers == <<Chars("Rome"), Chars("no"), Chars("Oslo"), Chars("yes")>>

\* what stage1_collect_responses may return: the responses of the first
\* k council models, k = 0 when every model failed
Stage1Results ==
    {[i \in 1..k |-> [model |-> CouncilModels[i], response |-> Answers[i]]] :
        k \in 0..MaxStage1}

\* the labels stage 2 gives the responses, and label_to_model
Labels(n) == [i \in 1..n |-> "Response " \o Chr65[i]]
LabelToModel(stage1_results) ==
    [l \in {Labels(Len(stage1_results))[i] : i \in 1..Len(stage1_results)} |->
        stage1_results[CHOOSE i \in 1..Len(stage1_results) :
                          Labels(Len(stage1_results))[i] = l].model]

\* the parsed_ranking of one judge: none, the labels in order, or reversed
ParsedRankings(n) ==
    {<< >>, Labels(n), [i \in 1..n |-> Labels(n)[n + 1 - i]]}

\* what stage2_collect_rankings may return as stage2_results for n
\* responses: the results of the first k council models
Stage2Results(n) ==
    UNION {{[i \in 1..k |-> [model |-> CouncilModels[i],
                             parsed_ranking |-> parsed[i]]] :
               parsed \in [1..k -> ParsedRankings(n)]} : k \in 0..MaxJudges}

\* the replies the extractor may give inside extract_claims
RunExtractorShapes ==
    {[claims |-> <<"plain", "contested">>, rest |-> "score_0_8_and_texts"],
     [claims |-> <<"contested">>, rest |-> "none"],
     [claims |-> <<"plain", "confidence_1_5">>, rest |-> "score_0_8"],
     [claims |-> OneSidedList, rest |-> "none"],
     [claims |-> << >>, rest |-> "none"]}
RunExtractorTexts ==
    {ObjLit(ExtractorObject(shape)) : shape \in RunExtractorShapes}
       \cup {"The responses agree."}

\* `if not stage1_results`
NoCheck(stage1_results) == FALSE
NoResponses(stage1_results) == stage1_results = << >>

\* the result returned when stage 1 gave nothing (lines 50-56)
TerminalResult ==
    [error |-> "All models failed to respond",
     stage1 |-> << >>, stage2 |-> << >>,
     stage3 |-> [model |-> "error", response |-> "No responses received"],
     metadata |-> << >>]

\* lines 62-67: rankings_dict[model] = parsed for every result with a
\* non-empty parsed_ranking; a model met again keeps its place
RECURSIVE RankingsDict(_)
RankingsDict(stage2_results) ==
    IF stage2_results = << >> THEN << >>
    ELSE LET n == Len(stage2_results)
             result == stage2_results[n]
             before == RankingsDict(SubSeq(stage2_results, 1, n - 1))
             item == [judge |-> result.model,
                      ranking |-> result.parsed_ranking]
         IN  IF result.parsed_ranking = << >> THEN before
             ELSE IF \E i \in 1..Len(before) : before[i].judge = result.model
             THEN [i \in 1..Len(before) |->
                     IF before[i].judge = result.model THEN item
                     ELSE before[i]]
             ELSE Append(before, item)

\* line 69
AgreementScore(rankings_dict) ==
    IF rankings_dict # << >> THEN compute_kendalls_w(rankings_dict)
    ELSE <<1, 2>>

\* format_claims_for_display (claims.py 146-169)
format_claims_for_display(claims, label_to_model) ==
    LET name(label) == IF label \in DOMAIN label_to_model
                       THEN label_to_model[label] ELSE label
    IN  [i \in 1..Len(claims) |->
           [claim |-> claims[i].claim,
            supporting |-> [k \in 1..Len(claims[i].supporting_models) |->
                              name(claims[i].supporting_models[k])],
            contradicting |->
               [k \in 1..Len(claims[i].contradicting_models) |->
                   name(claims[i].contradicting_models[k])],
            confidence |-> claims[i].confidence,
            status |-> claims[i].verification_status,
            source |-> claims[i].source]]

\* [c for c in claims if c["contradicting"]]
RECURSIVE WithContradicting(_)
WithContradicting(claims) ==
    IF claims = << >> THEN << >>
    ELSE IF Head(claims).contradicting # << >>
    THEN <<Head(claims)>> \o WithContradicting(Tail(claims))
    ELSE WithContradicting(Tail(claims))

\* result["response"][:200]
PredictionLimit == 200
First200(response) ==
    IF Len(response) <= PredictionLimit THEN response
    ELSE SubSeq(response, 1, PredictionLimit)

\* `for result in stage1_results` of the calibration loop (line 103)
OnlyFirst(stage1_results) == SubSeq(stage1_results, 1, 1)
CalibrationTargets(stage1_results) == stage1_results

\* the table after tracker.record_prediction for each of `results` in
\* order, ids from `id` on
RECURSIVE RecordPredictions(_, _, _, _, _)
RecordPredictions(table, id, results, query, confidence) ==
    IF results = << >> THEN table
    ELSE LET r == Head(results)
             row == [id |-> id, model |-> r.model,
                     query_hash |-> query_hash(query),
                     stated_confidence |-> confidence,
                     prediction |-> First200(r.response),
                     ground_truth |-> NullText, correct |-> None,
                     timestamp |-> now]
         IN  RecordPredictions(
                (table \ Conflicting(table, r.model, query_hash(query)))
                    \cup {row},
                id + 1, Tail(results), query, confidence)

\* the call: lines 40-47, up to the await of stage 1
run_enhanced_council(user_query) ==
    /\ run_pc = "idle"
    /\ run_in' = [user_query |-> user_query]
    /\ run_st' = [query_hash |-> query_hash(user_query),
                  domain |-> classify_query_domain(user_query)]
    /\ run_log' = <<"classify_domain", "collect_responses">>
    /\ run_pc' = "stage1"
    /\ UNCHANGED <<now, resVars, vfyVars, fnVars, run_out>>

\* stage 1 returns: lines 47-59, up to the await of stage 2
stage1_returns(stage1_results) ==
    /\ run_pc = "stage1"
    /\ run_st' = run_st @@ [stage1_results |-> stage1_results]
    /\ IF NoResponses(stage1_results)
       THEN /\ run_pc' = "done"
            /\ run_out' = [kind |-> "return", value |-> TerminalResult]
            /\ UNCHANGED run_log
       ELSE /\ run_pc' = "stage2"
            /\ run_log' = Append(run_log, "collect_rankings")
            /\ UNCHANGED run_out
    /\ UNCHANGED <<now, resVars, vfyVars, fnVars, run_in>>

\* an awaited stage function raises: nothing around the await catches it
stage_raises ==
    /\ run_pc \in {"stage1", "stage2", "stage3"}
    /\ run_pc' = "done"
    /\ run_out' = [kind |-> "raise", at |-> run_pc]
    /\ UNCHANGED <<now, resVars, vfyVars, fnVars, run_in, run_st, run_log>>

\* stage 2 returns: lines 59-83, up to the await of extract_claims
stage2_returns(stage2_results) ==
    LET rankings_dict == RankingsDict(stage2_results) IN
    /\ run_pc = "stage2"
    /\ run_st' = run_st @@
          [stage2_results |-> stage2_results,
           label_to_model |-> LabelToModel(run_st.stage1_results),
           agreement_score |-> AgreementScore(rankings_dict),
           disagreement |-> detect_disagreement(rankings_dict, <<1, 2>>),
           aggregate |-> "aggregate"]
    /\ run_log' = run_log \o <<"aggregate", "extract_claims">>
    /\ run_pc' = "extract"
    /\ UNCHANGED <<now, resVars, vfyVars, fnVars, run_in, run_out>>

\* extract_claims returns what it makes of the extractor's reply: lines
\* 84-96, up to the await of stage 3
extract_returns(text) ==
    LET claims == format_claims_for_display(ExtractResult(text).claims,
                                            run_st.label_to_model) IN
    /\ run_pc = "extract"
    /\ run_st' = run_st @@
          [claims |-> claims,
           contested_claims |-> WithContradicting(claims),
           extraction |-> "returned"]
    /\ run_log' = Append(run_log, "synthesize")
    /\ run_pc' = "stage3"
    /\ UNCHANGED <<now, resVars, vfyVars, fnVars, run_in, run_out>>

\* extract_claims raises (its query_model did): `except Exception`,
\* lines 86-89, then on to the await of stage 3
extract_raises ==
    /\ "raises" \in QueryModelOutcomes
    /\ run_pc = "extract"
    /\ run_st' = run_st @@
          [claims |-> << >>, contested_claims |-> << >>,
           extraction |-> "raised"]
    /\ run_log' = Append(run_log, "synthesize")
    /\ run_pc' = "stage3"
    /\ UNCHANGED <<now, resVars, vfyVars, fnVars, run_in, run_out>>

\* stage 3 returns: lines 92-141, the calibration loop and the result
stage3_returns ==
    LET stage3_result == [model |-> "chairman", response |-> "final"]
        targets == CalibrationTargets(run_st.stage1_results)
        n == Len(targets)
        score == run_st.agreement_score
        table(k) == RecordPredictions(db, next_id, SubSeq(targets, 1, k),
                                      run_in.user_query, score)
    IN
    /\ run_pc = "stage3"
    /\ txn.pc = "idle"
    /\ db' = table(n)
    /\ next_id' = next_id + n
    /\ cal_call' =
          IF n = 0 THEN cal_call
          ELSE [op |-> "record_prediction", result |-> "ok",
                model |-> targets[n].model, query |-> run_in.user_query,
                stated_confidence |-> score,
                prediction |-> First200(targets[n].response),
                replaced |-> {<<r.id, r.stated_confidence, r.correct>> :
                    r \in {x \in table(n - 1) :
                             /\ x.model = targets[n].model
                             /\ x.query_hash = run_st.query_hash}}]
    /\ run_st' = run_st @@
          [stage3_result |-> stage3_result,
           written |-> [k \in 1..n |-> targets[k].model]]
    /\ run_log' = run_log \o [k \in 1..n |-> "record_calibration"]
    /\ run_pc' = "done"
    /\ run_out' =
          [kind |-> "return",
           value |->
             [stage1 |-> run_st.stage1_results,
              stage2 |-> run_st.stage2_results,
              stage3 |-> stage3_result,
              metadata |->
                [label_to_model |-> run_st.label_to_model,
                 aggregate_rankings |-> run_st.aggregate,
                 agreement_score |-> score,
                 disagreement |-> run_st.disagreement,
                 claims |-> run_st.claims,
                 contested_claims |-> run_st.contested_claims,
                 domain |-> run_st.domain,
                 metrics |->
                   [query_hash |-> run_st.query_hash,
                    models_succeeded |-> Len(run_st.stage1_results),
                    agreement_score |-> score]]]]
    /\ UNCHANGED <<now, txn, cbVars, rpqVars, retryVars, cacheVars,
                   vfyVars, fnVars, run_in>>

NextRun ==
    \/ \E q \in RunQueries : run_enhanced_council(q)
    \/ \E results \in Stage1Results : stage1_returns(results)
    \/ stage_raises
    \/ /\ run_pc = "stage2"
       /\ \E results \in Stage2Results(Len(run_st.stage1_results)) :
             stage2_returns(results)
    \/ \E text \in RunExtractorTexts : extract_returns(text)
    \/ extract_raises
    \/ stage3_returns

InitAllRun ==
    /\ now = 0 /\ IdleCB /\ IdleRPQ /\ IdleRetry /\ IdleCache /\ InitCal
    /\ IdleVfy /\ IdleFn /\ IdleRun

SpecRun == InitAllRun /\ [][NextRun]_vars

\* the steps of a call that got n responses, in the order they start
StepsInOrder(n) ==
    <<"classify_domain", "collect_responses", "collect_rankings",
      "aggregate", "extract_claims", "synthesize">>
        \o [k \in 1..n |-> "record_calibration"]

IsPrefix(s, t) == Len(s) <= Len(t) /\ s = SubSeq(t, 1, Len(s))

\* C13: if stage 1 returns no responses, run_enhanced_council returns the
\* terminal "No responses received" result without raising, and makes no
\* ranking dispatch, claim extraction, synthesis or calibration write for
\* that query.
C13_NoResponsesTerminal ==
    ("stage1_results" \in DOMAIN run_st /\ run_st.stage1_results = << >>) =>
        /\ run_pc = "done"
        /\ run_out = [kind |-> "return", value |-> TerminalResult]
        /\ run_log = <<"classify_domain", "collect_responses">>
        /\ db = {}
        /\ cal_call.op = "none"

\* stage 1 came back empty for a query and the call has ended
C13_Witness ==
    /\ run_pc = "done"
    /\ "stage1_results" \in DOMAIN run_st
    /\ run_st.stage1_results = << >>
    /\ run_out.kind = "return"
    /\ run_out.value.stage3.response = "No responses received"

\* C18: run_enhanced_council runs its steps in the order classify domain,
\* collect responses, collect rankings, aggregate, extract claims,
\* synthesize, record calibration; it writes exactly one calibration
\* prediction per stage-1 response, and only after synthesis has
\* completed; a failure of claim extraction does not stop the later steps.
C18_StepsInOrder ==
    LET n == IF "stage1_results" \in DOMAIN run_st
             THEN Len(run_st.stage1_results) ELSE 0
        writes == {k \in 1..Len(run_log) : run_log[k] = "record_calibration"}
    IN  /\ IsPrefix(run_log, StepsInOrder(n))
        /\ writes # {} => "stage3_result" \in DOMAIN run_st
        /\ db # {} => "stage3_result" \in DOMAIN run_st
        /\ "stage3_result" \in DOMAIN run_st =>
              /\ run_log = StepsInOrder(n)
              /\ Cardinality(writes) = n
              /\ run_st.written = [k \in 1..n |-> run_st.stage1_results[k].model]
              /\ Cardinality(db) = n
              /\ \A k \in 1..n : \E r \in db :
                    /\ r.model = run_st.stage1_results[k].model
                    /\ r.query_hash = query_hash(run_in.user_query)
                    /\ r.prediction = run_st.stage1_results[k].response
        /\ ("extraction" \in DOMAIN run_st /\ run_st.extraction = "raised") =>
              /\ run_pc \in {"stage3", "done"}
              /\ run_log[Len(run_log)] \in {"synthesize", "record_calibration"}
              /\ run_out.kind = "raise" => run_out.at = "stage3"

\* claim extraction raised, and the call went on to synthesis and wrote
\* the predictions of its two responses
C18_Witness ==
    /\ run_pc = "done"
    /\ run_out.kind = "return"
    /\ "extraction" \in DOMAIN run_st
    /\ run_st.extraction = "raised"
    /\ run_st.written = <<"m1", "m2">>
    /\ Cardinality(db) = 2

\* ------------------------------------------------------------------------
\* C21: with_retry waits base_delay * 2^attempt (exponential) or base_delay
\* (constant) after failed attempt number `attempt` (counted from 0) before
\* it invokes the operation again, and does not wait after the final
\* failed attempt or after a success.
C21_BackoffDelays ==
    LET results == retry_log.results
        sleeps == retry_log.sleeps
    IN  /\ Len(sleeps) <= Len(results)
        /\ \A k \in 1..Len(sleeps) :
              /\ ~results[k].ok
              /\ k - 1 < retry_in.max_retries
              /\ sleeps[k].after = k - 1
              /\ sleeps[k].delay =
                    IF retry_in.exponential
                    THEN retry_in.base_delay * 2 ^ (k - 1)
                    ELSE retry_in.base_delay
        /\ \A k \in 1..Len(results) :
              /\ k < Len(results) => Len(sleeps) >= k
              /\ results[k].ok => Len(sleeps) = k - 1
              /\ k - 1 >= retry_in.max_retries => Len(sleeps) <= k - 1

\* three failed attempts with exponential backoff from base_delay 2: waits
\* of 2 and 4, none after the third failure
C21_Witness ==
    /\ retry_st.pc = "done"
    /\ retry_in = [max_retries |-> 2, base_delay |-> 2, exponential |-> TRUE]
    /\ Len(retry_log.results) = 3
    /\ retry_out.kind = "raise"
    /\ retry_log.sleeps = <<[after |-> 0, delay |-> 2], [after |-> 1, delay |-> 4]>>

\* ========================================================================
\* Calls of compute_kendalls_w and detect_disagreement
\*                                                 (evaluation.py 208-278)
\* ========================================================================
MaxRaters == 3        \* judges of a rankings dict: 0..MaxRaters

\* the ranking of one judge: empty, partial, a permutation of two or three
\* responses, with a response twice, with a response no one else names
RankingChoices ==
    {<< >>, <<"A">>, <<"A", "B">>, <<"B", "A">>, <<"A", "B", "C">>,
     <<"C", "A", "B">>, <<"A", "B", "B">>, <<"A", "A">>, <<"B", "X">>}

\* the rankings dicts: the first k council models as judges, in any order
\* of insertion
RankingsDicts ==
    UNION {{[j \in 1..k |-> [judge |-> CouncilModels[j],
                             ranking |-> choice[j]]] :
               choice \in [1..k -> RankingChoices]} : k \in 0..MaxRaters}

Thresholds == {<<1, 2>>, <<1, 1>>}

\* a call before it returns
Called(op, rankings, threshold) ==
    [op |-> op, rankings |-> rankings, threshold |-> threshold,
     out |-> [kind |-> "awaiting"]]

InitW ==
    \/ \E rankings \in RankingsDicts :
          fn_call = Called("compute_kendalls_w", rankings, <<1, 2>>)
    \/ \E rankings \in RankingsDicts, threshold \in Thresholds :
          fn_call = Called("detect_disagreement", rankings, threshold)

call_compute_kendalls_w ==
    /\ fn_call.op = "compute_kendalls_w"
    /\ fn_call.out.kind = "awaiting"
    /\ fn_call' = [fn_call EXCEPT !.out =
          [kind |-> "return", value |-> compute_kendalls_w(fn_call.rankings)]]
    /\ UNCHANGED <<now, resVars, vfyVars, runVars>>

call_detect_disagreement ==
    /\ fn_call.op = "detect_disagreement"
    /\ fn_call.out.kind = "awaiting"
    /\ fn_call' = [fn_call EXCEPT !.out =
          [kind |-> "return",
           value |-> detect_disagreement(fn_call.rankings,
                                         fn_call.threshold)]]
    /\ UNCHANGED <<now, resVars, vfyVars, runVars>>

NextW == call_compute_kendalls_w \/ call_detect_disagreement

InitAllW ==
    /\ now = 0 /\ IdleCB /\ IdleRPQ /\ IdleRetry /\ IdleCache /\ InitCal
    /\ IdleVfy /\ IdleRun /\ InitW

SpecW == InitAllW /\ [][NextW]_vars

\* the orders the judges of a dict of n judges can be inserted in
Orders(n) == {p \in [1..n -> 1..n] : \A i, j \in 1..n : p[i] = p[j] => i = j}
Reordered(rankings, p) == [i \in 1..Len(rankings) |-> rankings[p[i]]]

\* a returned call of `op`
Returned(op) == fn_call.op = op /\ fn_call.out.kind = "return"

\* C22: Kendall's W is invariant to permuting judge order:
\* compute_kendalls_w returns the same value for every reordering of the
\* judges of any rankings input, whether the rankings are full
\* permutations or omit items.
C22_JudgeOrderInvariant ==
    Returned("compute_kendalls_w") =>
        \A p \in Orders(Len(fn_call.rankings)) :
            compute_kendalls_w(Reordered(fn_call.rankings, p))
                = fn_call.out.value

C24_WithinUnitInterval ==
    Returned("compute_kendalls_w") =>
        /\ fn_call.out.value[2] > 0
        /\ 0 <= fn_call.out.value[1]
        /\ fn_call.out.value[1] <= fn_call.out.value[2]

\* two judges who both name a response twice: the rank sums spread wider
\* than S_max allows for, and the result is held at 1
C24_Witness ==
    /\ Returned("compute_kendalls_w")
    /\ Len(fn_call.rankings) = 2
    /\ fn_call.rankings[1].ranking = <<"A", "B", "B">>
    /\ fn_call.rankings[2].ranking = <<"A", "B", "B">>
    /\ fn_call.out.value = <<1, 1>>

\* C29: detect_disagreement reports has_consensus = true with an empty
\* faction list exactly when Kendall's W of the rankings is at least the
\* threshold, and has_consensus = false otherwise; its agreement_score is
\* that W.
C29_ConsensusIffAtLeastThreshold ==
    Returned("detect_disagreement") =>
        LET W == compute_kendalls_w(fn_call.rankings)
            result == fn_call.out.value
            reached == W[1] * fn_call.threshold[2]
                          >= fn_call.threshold[1] * W[2]
        IN  /\ result.agreement_score = W
            /\ result.has_consensus = reached
            /\ reached => result.factions = << >>
            /\ ~reached => result.factions # << >>

\* two judges in full agreement, asked with threshold 1.0: W is exactly
\* the threshold and the result is consensus
C29_Witness ==
    /\ Returned("detect_disagreement")
    /\ fn_call.threshold = <<1, 1>>
    /\ Len(fn_call.rankings) = 2
    /\ fn_call.rankings[1].ranking = <<"A", "B", "C">>
    /\ fn_call.rankings[2].ranking = <<"A", "B", "C">>
    /\ fn_call.out.value.has_consensus
    /\ fn_call.out.value.agreement_score = <<1, 1>>
    /\ fn_call.out.value.factions = << >>

\* the top choice of a judge, "unknown" for a judge with an empty ranking
TopChoice(j) ==
    IF fn_call.rankings[j].ranking = << >> THEN "unknown"
    ELSE fn_call.rankings[j].ranking[1]

\* C30: when detect_disagreement reports no consensus, its factions
\* partition the judges: every judge appears in exactly one faction, there
\* is one faction per distinct top choice in order of first appearance, and
\* each faction's position is the top choice of all its members.
C30_FactionsPartitionJudges ==
    (Returned("detect_disagreement") /\ ~fn_call.out.value.has_consensus) =>
        LET factions == fn_call.out.value.factions
            judges == 1..Len(fn_call.rankings)
            seats(j) == {<<k, i>> \in (1..Len(factions)) \X judges :
                            /\ i <= Len(factions[k].models)
                            /\ factions[k].models[i] = fn_call.rankings[j].judge}
            first(p) == CHOOSE j \in judges :
                           /\ TopChoice(j) = p
                           /\ \A i \in judges : TopChoice(i) = p => j <= i
        IN  /\ \A j \in judges : Cardinality(seats(j)) = 1
            /\ \A k \in 1..Len(factions) :
                  /\ Len(factions[k].models) >= 1
                  /\ \A i \in 1..Len(factions[k].models) :
                        \E j \in judges :
                           /\ fn_call.rankings[j].judge = factions[k].models[i]
                           /\ TopChoice(j) = factions[k].position
            /\ {factions[k].position : k \in 1..Len(factions)}
                  = {TopChoice(j) : j \in judges}
            /\ \A k, l \in 1..Len(factions) :
                  k < l => first(factions[k].position)
                              < first(factions[l].position)

\* three judges without consensus: the first and the third share the top
\* choice A, the second has B
C30_Witness ==
    /\ Returned("detect_disagreement")
    /\ ~fn_call.out.value.has_consensus
    /\ Len(fn_call.rankings) = 3
    /\ fn_call.out.value.factions =
          <<[position |-> "A", models |-> <<"m1", "m3">>],
            [position |-> "B", models |-> <<"m2">>]>>

\* ========================================================================
\* get_model_weight, aggregate_rankings
\*                          (schemas.py 115-145, evaluation.py 281-329)
\* ========================================================================
\* Weights are kept in twentieths, confidences in two-thousandths, so
\* weight * confidence counts 1/40000 and the floor 0.001 is 40.
\* A rankings dict is the sequence of its items in insertion order, each
\* [judge |-> model id, rankings |-> list of responses, confidence |-> c].
MaxAggJudges == 2     \* judges of an aggregate_rankings call: 0..MaxAggJudges

\* EXPERTISE_WEIGHTS: the keys, in the order every domain lists them, and
\* each domain's weights
ExpertiseKeys ==
    <<"deepseek", "gemini", "llama", "gemma", "gpt", "claude", "mistral">>
EXPERTISE_WEIGHTS ==
    [math      |-> <<18, 14, 10,  8, 16, 14, 10>>,
     code      |-> <<17, 14, 14, 10, 18, 17, 12>>,
     creative  |-> << 8, 16, 14, 12, 17, 18, 12>>,
     factual   |-> <<14, 16, 12, 12, 16, 15, 10>>,
     reasoning |-> <<18, 15, 12, 10, 17, 16, 10>>]

\* the weight of the first key that occurs in model_id.lower(), else 0.5
get_model_weight(model_id, domain) ==
    LET domain_weights ==
            IF domain \in DOMAIN EXPERTISE_WEIGHTS
            THEN EXPERTISE_WEIGHTS[domain] ELSE EXPERTISE_WEIGHTS["factual"]
        lowered == Lower(Chars(model_id))
        hits == {k \in 1..Len(ExpertiseKeys) :
                    Contains(lowered, Chars(ExpertiseKeys[k]))}
    IN  IF hits = {} THEN 10
        ELSE domain_weights[CHOOSE k \in hits : \A h \in hits : k <= h]

\* the judges of a call (config.py COUNCIL_MODELS, and an id no key is in)
AggJudges ==
    <<"tngtech/DeepSeek-r1t2-chimera:free", "local/tiny",
      "google/gemini-2.0-flash-exp:free", "google/gemma-3-27b-it:free">>
AggRankings ==
    {<< >>, <<"A", "B">>, <<"B", "A">>, <<"C", "A", "B">>, <<"A", "B", "A">>}
AggConfidences == {0, 1, 2000}
AggDomains == {"math", "history"}
AggDicts ==
    UNION {{[j \in 1..k |-> [judge |-> AggJudges[j],
                             rankings |-> pick[j][1],
                             confidence |-> pick[j][2]]] :
               pick \in [1..k -> AggRankings \X AggConfidences]} :
           k \in 0..MaxAggJudges}
AggLabelToModel == [l \in {"A", "B"} |-> IF l = "A" THEN "m1" ELSE "m2"]

\* the (judge, index) pairs of the entries of the rankings
Entries(rankings) ==
    UNION {{<<j, i>> : i \in DOMAIN rankings[j].rankings} :
              j \in DOMAIN rankings}

\* all_responses: every response some judge's ranking names
AllResponses(rankings) ==
    {rankings[p[1]].rankings[p[2]] : p \in Entries(rankings)}

\* the places (judge, index) where `response` stands in the rankings
Places(rankings, response) ==
    {p \in Entries(rankings) : rankings[p[1]].rankings[p[2]] = response}

\* weight * eval_result.confidence of judge j
Trust(rankings, domain, j) ==
    get_model_weight(rankings[j].judge, domain) * rankings[j].confidence

\* the same for the first k judges, as a list
RECURSIVE Trusts(_, _, _)
Trusts(rankings, domain, k) ==
    IF k = 0 THEN << >>
    ELSE Append(Trusts(rankings, domain, k - 1), Trust(rankings, domain, k))

\* rank_score = n - rank_idx of the entry at (1-based) index i of judge j
RankScore(rankings, j, i) == Len(rankings[j].rankings) - (i - 1)

\* weighted_sum and weight_total accumulated over the places of a response
RECURSIVE WeightedSum(_, _, _)
WeightedSum(places, rankings, trusts) ==
    IF places = {} THEN 0
    ELSE LET p == CHOOSE q \in places : TRUE
         IN  RankScore(rankings, p[1], p[2]) * trusts[p[1]]
                + WeightedSum(places \ {p}, rankings, trusts)

RECURSIVE WeightTotal(_, _)
WeightTotal(places, trusts) ==
    IF places = {} THEN 0
    ELSE LET p == CHOOSE q \in places : TRUE
         IN  trusts[p[1]] + WeightTotal(places \ {p}, trusts)

\* scores[response] after the loop over the judges (lines 295-308)
Scored(rankings, trusts, response) ==
    LET places == Places(rankings, response)
    IN  [weighted_sum |-> WeightedSum(places, rankings, trusts),
         weight_total |-> WeightTotal(places, trusts),
         first |-> Cardinality({p \in places : p[2] = 1}),
         last |-> Cardinality({p \in places :
                                  p[2] = Len(rankings[p[1]].rankings)})]

\* weighted_sum / max(weight_total, 0.001), in lowest terms
WeightFloor == 40
Weighted(data) ==
    Frac(data.weighted_sum,
         IF data.weight_total > WeightFloor THEN data.weight_total
         ELSE WeightFloor)
WeightedScore(rankings, trusts, response) ==
    Weighted(Scored(rankings, trusts, response))

\* x < y for fractions x, y >= 0, by their continued fractions
RECURSIVE Less(_, _, _, _)
Less(a, b, c, d) ==
    IF a \div b # c \div d THEN a \div b < c \div d
    ELSE IF c % d = 0 THEN FALSE
    ELSE IF a % b = 0 THEN TRUE
    ELSE Less(d, c % d, b, a % b)

\* results.sort(key=lambda x: x.weighted_score, reverse=True): x goes
\* before y
ScoreBelow(x, y) == Less(x[1], x[2], y[1], y[2])
ScoreAbove(x, y) == Less(y[1], y[2], x[1], x[2])

\* the rows of `data` (in dict order) put in sorted order: row i goes to
\* the place after the rows of higher score and the earlier rows of equal
\* score
RECURSIVE SortedFrom(_, _)
SortedFrom(data, k) ==
    IF k > Len(data) THEN << >>
    ELSE LET place(i) == 1 + Cardinality({j \in DOMAIN data :
                            \/ ScoreAbove(data[j].score, data[i].score)
                            \/ data[j].score = data[i].score /\ j < i})
         IN  <<data[CHOOSE i \in DOMAIN data : place(i) = k]>>
                \o SortedFrom(data, k + 1)

RECURSIVE ScoresDict(_, _, _, _)
ScoresDict(rankings, trusts, order, k) ==
    IF k = 0 THEN << >>
    ELSE LET data == Scored(rankings, trusts, order[k])
         IN  Append(ScoresDict(rankings, trusts, order, k - 1),
                    [response |-> order[k], data |-> data,
                     score |-> Weighted(data)])

\* aggregate_rankings, with `trusts` the judges' weight * confidence under
\* the call's domain and `order` the order in which the set all_responses
\* is iterated when the scores dict is built: the results list is in that
\* order before the (stable) sort
AggregateResult(rankings, label_to_model, trusts, order) ==
    LET results == ScoresDict(rankings, trusts, order, Len(order))
        sorted == SortedFrom(results, 1)
    IN  [k \in 1..Len(order) |->
           [response_id |-> sorted[k].response,
            model_name |-> IF sorted[k].response \in DOMAIN label_to_model
                           THEN label_to_model[sorted[k].response]
                           ELSE sorted[k].response,
            raw_score |-> sorted[k].data.weighted_sum,
            weighted_score |-> sorted[k].score,
            rank |-> k,
            votes_first |-> sorted[k].data.first,
            votes_last |-> sorted[k].data.last]]

\* the orders a set can be iterated in
Iterations(members) ==
    {order \in [1..Cardinality(members) -> members] :
        \A i, j \in 1..Cardinality(members) : order[i] = order[j] => i = j}

InitAgg ==
    \E rankings \in AggDicts, domain \in AggDomains :
        fn_call = [op |-> "aggregate_rankings", rankings |-> rankings,
                   label_to_model |-> AggLabelToModel, domain |-> domain,
                   out |-> [kind |-> "awaiting"]]

call_aggregate_rankings(order) ==
    /\ fn_call.op = "aggregate_rankings"
    /\ fn_call.out.kind = "awaiting"
    /\ \E trusts \in {Trusts(fn_call.rankings, fn_call.domain,
                              Len(fn_call.rankings))} :
          fn_call' = [fn_call EXCEPT !.out =
             [kind |-> "return",
              value |-> AggregateResult(fn_call.rankings,
                                        fn_call.label_to_model, trusts,
                                        order)]]
    /\ UNCHANGED <<now, resVars, vfyVars, runVars>>

NextAgg ==
    \E order \in Iterations(AllResponses(fn_call.rankings)) :
        call_aggregate_rankings(order)

InitAllAgg ==
    /\ now = 0 /\ IdleCB /\ IdleRPQ /\ IdleRetry /\ IdleCache /\ InitCal
    /\ IdleVfy /\ IdleRun /\ InitAgg

SpecAgg == InitAllAgg /\ [][NextAgg]_vars

\* the result row of `response` in the returned list
RowOf(result, response) ==
    result[CHOOSE k \in DOMAIN result : result[k].response_id = response]

\* the rankings in which judge j, who omitted `response`, places it last
PlacedLast(rankings, j, response) ==
    [rankings EXCEPT ![j].rankings = Append(@, response)]

\* C26: a response a judge omits is treated as ranked worst by that judge:
\* its weighted_score is never higher than the weighted_score it gets when
\* that judge places it last instead.
C26_OmittedNeverAboveLast ==
    Returned("aggregate_rankings") =>
        \A trusts \in {Trusts(fn_call.rankings, fn_call.domain,
                               Len(fn_call.rankings))} :
            \A j \in DOMAIN fn_call.rankings :
                \A response \in AllResponses(fn_call.rankings) :
                    (\A i \in DOMAIN fn_call.rankings[j].rankings :
                        fn_call.rankings[j].rankings[i] # response)
                    => ~ScoreAbove(
                          RowOf(fn_call.out.value, response).weighted_score,
                          WeightedScore(
                              PlacedLast(fn_call.rankings, j, response),
                              trusts, response))

\* the place of the first mention of `response` when the judges are read in
\* insertion order and each ranking from its front
FirstMention(rankings, response) ==
    CHOOSE p \in Places(rankings, response) :
        \A q \in Places(rankings, response) :
            p[1] < q[1] \/ (p[1] = q[1] /\ p[2] <= q[2])

MentionedBefore(rankings, r1, r2) ==
    LET p == FirstMention(rankings, r1)
        q == FirstMention(rankings, r2)
    IN  p[1] < q[1] \/ (p[1] = q[1] /\ p[2] < q[2])

\* C27: the result has one AggregatedScore per response any judge mentions,
\* is sorted by non-increasing weighted_score, keeps tied responses in the
\* order in which the rankings first mention them, and numbers the rank
\* fields 1..n.
C27_OnePerResponseSortedStable ==
    Returned("aggregate_rankings") =>
        LET result == fn_call.out.value
            n == Len(result)
        IN  /\ n = Cardinality(AllResponses(fn_call.rankings))
            /\ {result[k].response_id : k \in 1..n}
                  = AllResponses(fn_call.rankings)
            /\ \A k \in 1..n : result[k].rank = k
            /\ \A k, l \in 1..n : k < l =>
                  /\ ~ScoreAbove(result[l].weighted_score,
                                 result[k].weighted_score)
                  /\ result[k].weighted_score = result[l].weighted_score
                     => MentionedBefore(fn_call.rankings,
                                        result[k].response_id,
                                        result[l].response_id)

\* a call with one judge whose weight * confidence is positive
SingleTrustedJudge ==
    /\ Returned("aggregate_rankings")
    /\ Len(fn_call.rankings) = 1
    /\ Trust(fn_call.rankings, fn_call.domain, 1) > 0

\* the result lists the responses as the judge ranked them, with strictly
\* decreasing weighted_score and ranks 1..n
AsTheJudgeRanked ==
    LET result == fn_call.out.value
        ranking == fn_call.rankings[1].rankings
    IN  /\ Len(result) = Len(ranking)
        /\ \A k \in DOMAIN ranking :
              /\ result[k].response_id = ranking[k]
              /\ result[k].rank = k
        /\ \A k \in 1..(Len(result) - 1) :
              ScoreAbove(result[k].weighted_score,
                         result[k + 1].weighted_score)

\* no response stands twice in the ranking
NoRepeat(ranking) ==
    \A i, j \in DOMAIN ranking : ranking[i] = ranking[j] => i = j

\* C28 (as stated): with a single judge whose weight * confidence is
\* positive the responses come out exactly as that judge ranked them, with
\* strictly decreasing weighted_score and ranks 1..n.
C28_SingleJudgeOrder == SingleTrustedJudge => AsTheJudgeRanked

\* C28 (amended): the same, for a judge whose ranking names no response
\* twice.
C28_SingleJudgeOrderNoRepeat ==
    (SingleTrustedJudge /\ NoRepeat(fn_call.rankings[1].rankings))
        => AsTheJudgeRanked

\* a single judge of weight 0.9 and confidence 0.0005 (their product below
\* the floor 0.001) has ranked three responses and the call has returned
C28_Witness ==
    /\ SingleTrustedJudge
    /\ Trust(fn_call.rankings, fn_call.domain, 1) < WeightFloor
    /\ fn_call.rankings[1].rankings = <<"C", "A", "B">>
    /\ fn_call.domain = "math"
    /\ fn_call.out.value[1].weighted_score = <<27, 20>>

\* ========================================================================
\* bradley_terry_scores                          (evaluation.py 156-205)
\* ========================================================================
\* Confidences, wins and scores are exact fractions <<numerator,
\* denominator>> in lowest terms.  The comparisons of a call are drawn from
\* two families on which the 20 rounds keep small numerators and
\* denominators: comparisons along the chain A, B, C, and comparisons
\* between A and B (ties included).
MaxComparisons == 2   \* entries of the comparisons list: 0..MaxComparisons
Rounds == 20          \* `for _ in range(20)`

FAdd(x, y) == Frac(x[1] * y[2] + y[1] * x[2], x[2] * y[2])
FMul(x, y) == Frac(x[1] * y[1], x[2] * y[2])
FDiv(x, y) == Frac(x[1] * y[2], x[2] * y[1])
RECURSIVE SumFracs(_)
SumFracs(fracs) ==
    IF fracs = << >> THEN <<0, 1>>
    ELSE FAdd(Head(fracs), SumFracs(Tail(fracs)))

Comparison(a, b, winner, confidence) ==
    [response_a |-> a, response_b |-> b, winner |-> winner,
     confidence |-> confidence]
\* an entry that is no PairwiseComparison (an exception a judge's task
\* ended with)
NotAComparison == [exception |-> "RuntimeError"]
IsComparison(c) == "winner" \in DOMAIN c

ChainComparisons ==
    {Comparison("A", "B", "A", <<1, 1>>), Comparison("A", "B", "A", <<0, 1>>),
     Comparison("B", "C", "A", <<1, 1>>), Comparison("B", "A", "B", <<1, 2>>),
     Comparison("C", "B", "B", <<1, 2>>), Comparison("A", "B", "tie", <<0, 1>>),
     Comparison("A", "C", "B", <<0, 1>>), NotAComparison}
PairComparisons ==
    {Comparison("A", "B", "A", <<1, 1>>), Comparison("A", "B", "A", <<0, 1>>),
     Comparison("A", "B", "tie", <<1, 1>>), Comparison("B", "A", "B", <<1, 2>>),
     Comparison("A", "B", "tie", <<1, 2>>), Comparison("A", "A", "A", <<1, 1>>),
     Comparison("B", "A", "A", <<1, 1>>), Comparison("C", "C", "tie", <<0, 1>>)}
ListsOver(choices) ==
    UNION {[1..k -> choices] : k \in 0..MaxComparisons}
ComparisonLists == ListsOver(ChainComparisons) \cup ListsOver(PairComparisons)

\* `responses = sorted(responses)`: the responses some comparison names,
\* in alphabetical order
Alphabetical == <<"A", "B", "C">>
SortedResponses(comparisons) ==
    SelectSeq(Alphabetical,
              LAMBDA r : \E i \in DOMAIN comparisons :
                            /\ IsComparison(comparisons[i])
                            /\ r \in {comparisons[i].response_a,
                                      comparisons[i].response_b})

\* what comparison c adds to wins[r][s]
Credit(c, r, s) ==
    IF ~IsComparison(c) THEN <<0, 1>>
    ELSE IF c.winner = "A"
    THEN (IF c.response_a = r /\ c.response_b = s
          THEN c.confidence ELSE <<0, 1>>)
    ELSE IF c.winner = "B"
    THEN (IF c.response_b = r /\ c.response_a = s
          THEN c.confidence ELSE <<0, 1>>)
    ELSE FAdd(IF c.response_a = r /\ c.response_b = s
              THEN FMul(<<1, 2>>, c.confidence) ELSE <<0, 1>>,
              IF c.response_b = r /\ c.response_a = s
              THEN FMul(<<1, 2>>, c.confidence) ELSE <<0, 1>>)

RECURSIVE WinsOf(_, _, _)
WinsOf(comparisons, r, s) ==
    IF comparisons = << >> THEN <<0, 1>>
    ELSE FAdd(Credit(Head(comparisons), r, s),
              WinsOf(Tail(comparisons), r, s))

\* wins, as the list of its rows: wins[i][j] is wins[responses[i]][responses[j]]
RECURSIVE WinsRow(_, _, _, _)
WinsRow(comparisons, responses, r, k) ==
    IF k = 0 THEN << >>
    ELSE Append(WinsRow(comparisons, responses, r, k - 1),
                WinsOf(comparisons, r, responses[k]))
RECURSIVE WinsTable(_, _, _)
WinsTable(comparisons, responses, k) ==
    IF k = 0 THEN << >>
    ELSE Append(WinsTable(comparisons, responses, k - 1),
                WinsRow(comparisons, responses, responses[k],
                        Len(responses)))

\* `(wins[r][s] + wins[s][r]) / (scores[r] + scores[s])` divides by zero
\* for some r and s # r
RaisesZeroDivision(scores) ==
    \E r, s \in DOMAIN scores :
        r # s /\ FAdd(scores[r], scores[s]) = <<0, 1>>

\* the sum over the responses s # r among the first k
RECURSIVE Denominator(_, _, _, _)
Denominator(wins, scores, r, k) ==
    IF k = 0 THEN <<0, 1>>
    ELSE IF k = r THEN Denominator(wins, scores, r, k - 1)
    ELSE FAdd(Denominator(wins, scores, r, k - 1),
              FDiv(FAdd(wins[r][k], wins[k][r]),
                   FAdd(scores[r], scores[k])))

\* `new_scores[r] = numerator / max(denominator, 0.001)`
DenominatorFloor == <<1, 1000>>
NewScore(wins, scores, r) ==
    LET numerator == SumFracs(wins[r])
        denominator == Denominator(wins, scores, r, Len(scores))
    IN  FDiv(numerator,
             IF FracGeq(denominator, DenominatorFloor) THEN denominator
             ELSE DenominatorFloor)

RECURSIVE NewScores(_, _, _)
NewScores(wins, scores, k) ==
    IF k = 0 THEN << >>
    ELSE Append(NewScores(wins, scores, k - 1), NewScore(wins, scores, k))

RECURSIVE Normalised(_, _, _)
Normalised(new_scores, total, k) ==
    IF k = 0 THEN << >>
    ELSE Append(Normalised(new_scores, total, k - 1),
                FDiv(new_scores[k], total))

\* the rounds still to run, from `scores`: the scores after the last round,
\* or the ZeroDivisionError a round raises
RECURSIVE Iterate(_, _, _)
Iterate(wins, scores, rounds) ==
    IF rounds = 0 THEN [kind |-> "return", scores |-> scores]
    ELSE IF RaisesZeroDivision(scores)
    THEN [kind |-> "raise", error |-> "ZeroDivisionError"]
    ELSE LET new_scores == NewScores(wins, scores, Len(scores))
             total == SumFracs(new_scores)
         IN  IF total = <<0, 1>>
             THEN [kind |-> "raise", error |-> "ZeroDivisionError"]
             ELSE LET next == Normalised(new_scores, total, Len(scores))
                  IN  Iterate(wins, next, rounds - 1)

\* `scores = {r: 1.0 for r in responses}`
RECURSIVE Uniform(_)
Uniform(k) == IF k = 0 THEN << >> ELSE Append(Uniform(k - 1), <<1, 1>>)

RECURSIVE Items(_, _, _)
Items(responses, scores, k) ==
    IF k = 0 THEN << >>
    ELSE Append(Items(responses, scores, k - 1),
                <<responses[k], scores[k]>>)

\* the outcome of bradley_terry_scores(comparisons); the dict it returns is
\* the list of its items <<response, score>>
bradley_terry_scores(comparisons) ==
    LET responses == SortedResponses(comparisons)
    IN  IF responses = << >> THEN [kind |-> "return", value |-> << >>]
        ELSE LET wins == WinsTable(comparisons, responses, Len(responses))
                 ended == Iterate(wins, Uniform(Len(responses)), Rounds)
             IN  IF ended.kind = "raise" THEN ended
                 ELSE [kind |-> "return",
                       value |-> Items(responses, ended.scores,
                                       Len(responses))]

InitBT ==
    \E comparisons \in ComparisonLists :
        fn_call = [op |-> "bradley_terry_scores",
                   comparisons |-> comparisons,
                   out |-> [kind |-> "awaiting"]]

call_bradley_terry_scores ==
    /\ fn_call.op = "bradley_terry_scores"
    /\ fn_call.out.kind = "awaiting"
    /\ fn_call' = [fn_call EXCEPT
                      !.out = bradley_terry_scores(fn_call.comparisons)]
    /\ UNCHANGED <<now, resVars, vfyVars, runVars>>

NextBT == call_bradley_terry_scores

InitAllBT ==
    /\ now = 0 /\ IdleCB /\ IdleRPQ /\ IdleRetry /\ IdleCache /\ InitCal
    /\ IdleVfy /\ IdleRun /\ InitBT

SpecBT == InitAllBT /\ [][NextBT]_vars

\* the values of a list of items
RECURSIVE Values(_)
Values(items) ==
    IF items = << >> THEN << >> ELSE <<Head(items)[2]>> \o Values(Tail(items))

\* C25: for every non-empty list of pairwise comparisons (confidence
\* anywhere in [0, 1], any insertion order) bradley_terry_scores returns a
\* dict with exactly one score per candidate, and the scores sum to 1.
C25_OneScoreEachSummingToOne ==
    (/\ fn_call.op = "bradley_terry_scores"
     /\ fn_call.out.kind # "awaiting"
     /\ \E i \in DOMAIN fn_call.comparisons :
           IsComparison(fn_call.comparisons[i]))
    => /\ fn_call.out.kind = "return"
       /\ LET items == fn_call.out.value
              candidates == SortedResponses(fn_call.comparisons)
          IN  /\ Len(items) = Len(candidates)
              /\ \A k \in DOMAIN items : items[k][1] = candidates[k]
              /\ SumFracs(Values(items)) = <<1, 1>>

\* a call that returned scores for three candidates, summing to 1
ThreeScoresReturned ==
    /\ Returned("bradley_terry_scores")
    /\ Len(fn_call.out.value) = 3
    /\ SumFracs(Values(fn_call.out.value)) = <<1, 1>>

\* a call of run_enhanced_council has returned a result that is no error
NonErrorResult ==
    /\ run_pc = "done"
    /\ run_out.kind = "return"
    /\ "error" \notin DOMAIN run_out.value

\* the entries of `claims` with at least one supporting and at least one
\* contradicting entry, in order
RECURSIVE BothSided(_)
BothSided(claims) ==
    IF claims = << >> THEN << >>
    ELSE IF Head(claims).supporting # << >> /\ Head(claims).contradicting # << >>
    THEN <<Head(claims)>> \o BothSided(Tail(claims))
    ELSE BothSided(Tail(claims))

\* C31: the contested subset in the result of run_enhanced_council is
\* exactly the extracted claims that have at least one supporting and at
\* least one contradicting entry.
C31_ContestedAreBothSided ==
    NonErrorResult =>
        run_out.value.metadata.contested_claims
            = BothSided(run_out.value.metadata.claims)

\* C40: in every non-error result of run_enhanced_council the top-level
\* metadata agreement_score (the stated confidence of the calibration
\* records) equals the agreement_score inside the disagreement result, also
\* when no judge produced a parsed ranking.
C40_OneAgreementScore ==
    NonErrorResult =>
        /\ run_out.value.metadata.agreement_score
              = run_out.value.metadata.disagreement.agreement_score
        /\ run_out.value.metadata.metrics.agreement_score
              = run_out.value.metadata.disagreement.agreement_score
        /\ \A r \in db :
              r.stated_confidence
                 = run_out.value.metadata.disagreement.agreement_score

\* ========================================================================
\* identify_contested_claims, compute_claim_agreement  (claims.py 121-143)
\* ========================================================================
MaxListed == 2        \* claims in the list of a call: 0..MaxListed

\* the ExtractedClaims of a call: any of the supporting lists with any of
\* the contradicting lists
ListedClaim(supporting, contradicting) ==
    [claim |-> "c", supporting_models |-> supporting,
     contradicting_models |-> contradicting, confidence |-> 9,
     verification_status |-> "unverified", source |-> "None"]
ListedClaims ==
    {ListedClaim(s, c) :
        s \in {<< >>, <<"Response A">>, <<"Response A", "Response C">>},
        c \in {<< >>, <<"Response B">>, <<"Response B", "Response D">>}}
ClaimLists == UNION {[1..n -> ListedClaims] : n \in 0..MaxListed}

\* `if claim.contradicting_models and claim.supporting_models`
OnlyContradicted(claim) == claim.contradicting_models # << >>
IsContested(claim) ==
    claim.contradicting_models # << >> /\ claim.supporting_models # << >>

RECURSIVE identify_contested_claims(_)
identify_contested_claims(claims) ==
    IF claims = << >> THEN << >>
    ELSE IF IsContested(Head(claims))
    THEN <<Head(claims)>> \o identify_contested_claims(Tail(claims))
    ELSE identify_contested_claims(Tail(claims))

\* `n_support / total`
ContradictShare(n_support, total) == Frac(total - n_support, total)
SupportShare(n_support, total) == Frac(n_support, total)

\* agreement_scores after the loop (lines 135-141)
RECURSIVE AgreementScores(_)
AgreementScores(claims) ==
    IF claims = << >> THEN << >>
    ELSE LET n_support == Len(Head(claims).supporting_models)
             n_contradict == Len(Head(claims).contradicting_models)
             total == n_support + n_contradict
         IN  IF total > 0
             THEN <<SupportShare(n_support, total)>>
                     \o AgreementScores(Tail(claims))
             ELSE AgreementScores(Tail(claims))

compute_claim_agreement(claims) ==
    IF claims = << >> THEN <<1, 1>>
    ELSE LET agreement_scores == AgreementScores(claims)
         IN  IF agreement_scores # << >>
             THEN FDiv(SumFracs(agreement_scores),
                       <<Len(agreement_scores), 1>>)
             ELSE <<1, 1>>

InitClaims ==
    \E op \in {"identify_contested_claims", "compute_claim_agreement"},
       claims \in ClaimLists :
        fn_call = [op |-> op, claims |-> claims,
                   out |-> [kind |-> "awaiting"]]

call_identify_contested_claims ==
    /\ fn_call.op = "identify_contested_claims"
    /\ fn_call.out.kind = "awaiting"
    /\ fn_call' = [fn_call EXCEPT !.out =
          [kind |-> "return",
           value |-> identify_contested_claims(fn_call.claims)]]
    /\ UNCHANGED <<now, resVars, vfyVars, runVars>>

call_compute_claim_agreement ==
    /\ fn_call.op = "compute_claim_agreement"
    /\ fn_call.out.kind = "awaiting"
    /\ fn_call' = [fn_call EXCEPT !.out =
          [kind |-> "return",
           value |-> compute_claim_agreement(fn_call.claims)]]
    /\ UNCHANGED <<now, resVars, vfyVars, runVars>>

NextClaims == call_identify_contested_claims \/ call_compute_claim_agreement

InitAllClaims ==
    /\ now = 0 /\ IdleCB /\ IdleRPQ /\ IdleRetry /\ IdleCache /\ InitCal
    /\ IdleVfy /\ IdleRun /\ InitClaims

SpecClaims == InitAllClaims /\ [][NextClaims]_vars

\* C32: identify_contested_claims returns exactly the claims with a
\* non-empty supporting set and a non-empty contradicting set, in input
\* order, and no others.
C32_ExactlyTheContested ==
    Returned("identify_contested_claims") =>
        fn_call.out.value =
            SelectSeq(fn_call.claims,
                      LAMBDA c : /\ Len(c.supporting_models) >= 1
                                 /\ Len(c.contradicting_models) >= 1)

\* a call on a claim that is only contradicted followed by a contested one
\* has returned the contested one alone
C32_Witness ==
    /\ Returned("identify_contested_claims")
    /\ Len(fn_call.claims) = 2
    /\ fn_call.claims[1].supporting_models = << >>
    /\ fn_call.claims[1].contradicting_models = <<"Response B">>
    /\ fn_call.claims[2].supporting_models = <<"Response A">>
    /\ fn_call.claims[2].contradicting_models = <<"Response B", "Response D">>
    /\ fn_call.out.value = <<fn_call.claims[2]>>

\* the positions of the claims with at least one vote
Voted(claims) ==
    {i \in DOMAIN claims :
        Len(claims[i].supporting_models)
            + Len(claims[i].contradicting_models) >= 1}

\* value * count = the sum over the voted claims of supports / votes:
\* the shares are counted in twelfths
\* (12 is a multiple of every number of votes, 1 to 4, a claim has here)
RECURSIVE TwelfthsOfSupport(_, _)
TwelfthsOfSupport(claims, positions) ==
    IF positions = {} THEN 0
    ELSE LET i == CHOOSE p \in positions : TRUE
             supports == Len(claims[i].supporting_models)
             votes == supports + Len(claims[i].contradicting_models)
         IN  (12 * supports) \div votes
                + TwelfthsOfSupport(claims, positions \ {i})

\* C33: compute_claim_agreement returns 1.0 for an empty claim list and
\* for a list in which no claim has any vote; otherwise it returns the
\* mean, over the claims with at least one vote, of
\* supports / (supports + contradicts), which lies in [0, 1].
C33_MeanSupportShare ==
    Returned("compute_claim_agreement") =>
        LET value == fn_call.out.value
            voted == Voted(fn_call.claims)
        IN  /\ voted = {} => value = <<1, 1>>
            /\ voted # {} =>
                  value[1] * 12 * Cardinality(voted)
                     = TwelfthsOfSupport(fn_call.claims, voted) * value[2]
            /\ value[1] >= 0 /\ value[1] <= value[2]

\* a call on a claim without votes and a claim with one supporter and two
\* contradictors has returned 1/3
C33_Witness ==
    /\ Returned("compute_claim_agreement")
    /\ Len(fn_call.claims) = 2
    /\ Voted(fn_call.claims) = {2}
    /\ Len(fn_call.claims[2].supporting_models) = 1
    /\ Len(fn_call.claims[2].contradicting_models) = 2
    /\ fn_call.out.value = <<1, 3>>

\* a call on a non-empty list in which no claim has a vote has returned 1
NoVotesReturnsOne ==
    /\ Returned("compute_claim_agreement")
    /\ fn_call.claims # << >>
    /\ Voted(fn_call.claims) = {}
    /\ fn_call.out.value = <<1, 1>>

\* ========================================================================
\* _check_correctness on its own                  (calibration.py 87-106)
\* ========================================================================
\* the predictions and ground truths of a call: empty, blank, one word in
\* several spellings, a word that contains another, and texts of two words
\* whose first words agree (of two and of three letters)
CheckedTexts ==
    {Chars(""), Chars("  "), Chars("Rome"), Chars(" rome\n"), Chars("Romeo"),
     Chars("oslo"), Chars("no way"), Chars("No go"), Chars("yes sir"),
     Chars("YES\tmam")}

InitCorrect ==
    \E prediction \in CheckedTexts, ground_truth \in CheckedTexts :
        fn_call = [op |-> "_check_correctness", prediction |-> prediction,
                   ground_truth |-> ground_truth,
                   out |-> [kind |-> "awaiting"]]

call_check_correctness ==
    /\ fn_call.op = "_check_correctness"
    /\ fn_call.out.kind = "awaiting"
    /\ fn_call' = [fn_call EXCEPT !.out =
          [kind |-> "return",
           value |-> _check_correctness(fn_call.prediction,
                                        fn_call.ground_truth)]]
    /\ UNCHANGED <<now, resVars, vfyVars, runVars>>

NextCorrect == call_check_correctness

InitAllCorrect ==
    /\ now = 0 /\ IdleCB /\ IdleRPQ /\ IdleRetry /\ IdleCache /\ InitCal
    /\ IdleVfy /\ IdleRun /\ InitCorrect

SpecCorrect == InitAllCorrect /\ [][NextCorrect]_vars

\* a text lower-cased and trimmed: the part between its first and its last
\* character that is no whitespace
Trimmed(text) ==
    LET inked == {i \in DOMAIN text : ~IsSpace(text[i])}
    IN  IF inked = {} THEN << >>
        ELSE LET first == CHOOSE i \in inked : \A j \in inked : i <= j
                 last == CHOOSE i \in inked : \A j \in inked : j <= i
             IN  [k \in 1..(last - first + 1) |->
                    LowerChar(text[first + k - 1])]

\* `part` occurs in `whole`: whole = before \o part \o after
OccursIn(part, whole) ==
    \E before \in 0..Len(whole) :
        /\ before + Len(part) <= Len(whole)
        /\ \A k \in 1..Len(part) : whole[before + k] = part[k]

\* the first token of a trimmed text: up to its first whitespace
LeadingToken(text) ==
    LET spaces == {i \in DOMAIN text : IsSpace(text[i])}
    IN  IF spaces = {} THEN text
        ELSE SubSeq(text, 1,
                    (CHOOSE i \in spaces : \A j \in spaces : i <= j) - 1)

\* C34: for every pair of strings (empty ones included) a prediction is
\* marked correct exactly when, after lower-casing and trimming,
\* prediction and ground truth are equal, one contains the other, or their
\* first tokens are equal and longer than 2 characters; the test is
\* symmetric in prediction and ground truth.
C34_LenientMatchSymmetric ==
    Returned("_check_correctness") =>
        LET p == Trimmed(fn_call.prediction)
            g == Trimmed(fn_call.ground_truth)
        IN  /\ fn_call.out.value
                 <=> \/ p = g
                     \/ OccursIn(p, g)
                     \/ OccursIn(g, p)
                     \/ /\ LeadingToken(p) = LeadingToken(g)
                        /\ Len(LeadingToken(p)) > 2
            /\ fn_call.out.value
                 = _check_correctness(fn_call.ground_truth,
                                      fn_call.prediction)

\* "yes sir" against "YES\tmam": neither contains the other, the first
\* tokens agree and have three letters, and the prediction counts as
\* correct
C34_Witness ==
    /\ Returned("_check_correctness")
    /\ fn_call.prediction = Chars("yes sir")
    /\ fn_call.ground_truth = Chars("YES\tmam")
    /\ fn_call.out.value = TRUE

\* "no way" against "No go" is not correct (first token of two letters),
\* and an empty ground truth makes any prediction correct
ShortTokenNotCorrect ==
    /\ Returned("_check_correctness")
    /\ fn_call.prediction = Chars("no way")
    /\ fn_call.ground_truth = Chars("No go")
    /\ fn_call.out.value = FALSE
EmptyTruthCorrect ==
    /\ Returned("_check_correctness")
    /\ fn_call.prediction = Chars("oslo")
    /\ fn_call.ground_truth = Chars("")
    /\ fn_call.out.value = TRUE

\* C35: record_prediction for a (model, query) whose row already has a
\* recorded outcome replaces the whole row: ground_truth and correct are
\* unset again, and the row is not among the rows get_calibration_curve
\* counts (until record_outcome is called again for that query).
C35_ReplaceUnsetsOutcome ==
    cal_call.op = "record_prediction" =>
        \A r \in db :
            (/\ r.model = cal_call.model
             /\ r.query_hash = query_hash(cal_call.query))
            => /\ r.ground_truth = NullText
               /\ r.correct = None
               /\ r \notin CurveRows(db, cal_call.model)

\* a record_prediction replaced a row that had been marked correct, while
\* the row of another model for the same query keeps its outcome
C35_Witness ==
    /\ cal_call.op = "record_prediction"
    /\ \E old \in cal_call.replaced : old[3] = 1
    /\ \E r \in db : /\ r.query_hash = query_hash(cal_call.query)
                     /\ r.model # cal_call.model
                     /\ r.correct # None
    /\ CurveRows(db, cal_call.model) = {}

\* C36: record_success(M) while M's circuit is open resets M's failure
\* counter to 0 but does not close the circuit: open_until[M] stays as the
\* last tripping record_failure(M) set it and is_open(M) stays true until
\* that cooldown has elapsed, so an open circuit coexists with a failure
\* counter below failure_threshold.
C36_SuccessLeavesCircuitOpen ==
    /\ (/\ cb_call.op = "record_success"
        /\ cb_call.before.opened # None
        /\ cb_call.at < cb_call.before.tripped + recovery_timeout)
       => /\ GetOr(failures, cb_call.model, None) = 0
          /\ 0 < failure_threshold
          /\ cb_call.model \in DOMAIN open_until
          /\ open_until[cb_call.model] =
                 cb_call.before.tripped + recovery_timeout
          /\ IsOpenResult(cb_call.model) <=>
                 now < cb_call.before.tripped + recovery_timeout
    /\ (/\ cb_call.op = "is_open"
        /\ cb_call.before.opened # None
        /\ cb_call.before.streak = 0)
       => /\ cb_call.ret <=>
                 cb_call.at < cb_call.before.tripped + recovery_timeout
          /\ cb_call.counter = 0

\* is_open(M) has just returned true for a circuit whose counter a
\* record_success(M) had reset to 0 during the cooldown
C36_Witness ==
    /\ cb_call.op = "is_open"
    /\ cb_call.ret
    /\ cb_call.before.opened # None
    /\ cb_call.before.streak = 0
    /\ cb_call.counter = 0
    /\ cb_call.counter < failure_threshold
    /\ cb_call.model \in DOMAIN open_until

\* the state right after such a record_success: circuit open, counter 0
OpenWithCounterZero ==
    /\ cb_call.op = "record_success"
    /\ cb_call.before.opened # None
    /\ cb_call.before.consec >= failure_threshold
    /\ IsOpenResult(cb_call.model)
    /\ failures[cb_call.model] = 0

\* ------------------------------------------------------------------------
\* QueryCache: keys, sweeps and lifetimes          (resilience.py 125-150)
\* ------------------------------------------------------------------------
\* C37: cache entries of distinct (model, query) pairs never alias: for any
\* two different pairs, a set for one never changes what get returns for
\* the other.
C37_SetLeavesOtherPairs ==
    [][\A p \in CachePairs, q \in CachePairs, v \in CacheValues :
          (p # q /\ set(p[1], p[2], v))
          => GetResult(q[1], q[2])' = GetResult(q[1], q[2])]_vars

\* C38: clear_expired removes exactly the cache entries whose age is at
\* least ttl and leaves every younger entry and its value unchanged, so
\* what get returns for any (query, model) is the same after the sweep as
\* before it.
C38_SweepRemovesTheStale ==
    [][clear_expired =>
          /\ DOMAIN cache' =
                 {k \in DOMAIN cache : now - cache[k].timestamp < ttl}
          /\ DOMAIN cache \ DOMAIN cache' =
                 {k \in DOMAIN cache : now - cache[k].timestamp >= ttl}
          /\ \A k \in DOMAIN cache' : cache'[k] = cache[k]
          /\ \A p \in CachePairs :
                 GetResult(p[1], p[2])' = GetResult(p[1], p[2])]_vars

\* a sweep has just removed an entry and kept a younger one, which get
\* still returns
C38_Witness ==
    /\ cache_call.op = "clear_expired"
    /\ cache_call.swept # {}
    /\ \E p \in CachePairs :
          /\ _cache_key(p[1], p[2]) \in DOMAIN cache
          /\ _cache_key(p[1], p[2]) \notin cache_call.swept
          /\ GetResult(p[1], p[2]) # NoValue

\* the sets made for a key (since the last clear), most recent first
SetsOfKey(key) ==
    {p \in DOMAIN cache_sets : _cache_key(p[1], p[2]) = key}
MostRecentSets(key) ==
    {p \in SetsOfKey(key) :
        \A q \in SetsOfKey(key) : cache_sets[q].at <= cache_sets[p].at}

\* C39: a cache entry's expiry is measured from its most recent set: the
\* entry of a key holds the value and the time of the most recent set for
\* that key, whatever get calls were made since, and get returns that value
\* exactly while less than ttl has passed since that set.
C39_LifetimeFromLastSet ==
    /\ \A k \in DOMAIN cache :
          \E p \in MostRecentSets(k) :
              cache[k] = [value |-> cache_sets[p].value,
                          timestamp |-> cache_sets[p].at]
    /\ cache_call.op = "get" =>
          LET k == _cache_key(cache_call.query, cache_call.model) IN
          IF \E p \in MostRecentSets(k) :
                 cache_call.at - cache_sets[p].at < ttl
          THEN \E p \in MostRecentSets(k) :
                 cache_call.value = cache_sets[p].value
          ELSE cache_call.value = NoValue

\* a set replaced the value of an earlier set for the same pair; the
\* earlier set is ttl or more in the past, yet get still returns the new
\* value
C39_Witness ==
    /\ cache_call.op = "set"
    /\ cache_call.before.at # None
    /\ cache_call.before.value # cache_call.value
    /\ now - cache_call.before.at >= ttl
    /\ now > cache_call.at
    /\ GetResult(cache_call.query, cache_call.model) = cache_call.value

\* a get hit on an entry, and a later get at ttl after the set missed
GetMissAtTtl ==
    /\ cache_call.op = "get"
    /\ cache_call.before.at # None
    /\ cache_call.at - cache_call.before.at = ttl
    /\ cache_call.value = NoValue

=============================================================================
